---- MODULE Spec2Model ----
(***************************************************************************)
(* A model of parts of bgpview:                                            *)
(*   - the view-sender consumer (lib/consumers/bvc_viewsender.c), which    *)
(*     publishes each view as a sync frame or as a diff frame, with its    *)
(*     options, its full-feed filter and its graphite-safe instance name;  *)
(*   - the binary view file codec (bgpview_io_file.c), which writes a view *)
(*     as a framed byte stream, reads it back, and prints it as text;      *)
(*   - the routing-table engine (libroutingtables), which builds the view  *)
(*     from RIB, update and state elements;                                *)
(*   - the Kafka client (lib/io/kafka/bgpview_io_kafka.c): its error       *)
(*     callback, topic names, start and destroy, and the worker threads    *)
(*     of its global consumer;                                             *)
(*   - the archiver consumer (lib/consumers/bvc_archiver.c), which writes  *)
(*     views to files that it rotates;                                     *)
(*   - the sub-prefix consumer (lib/consumers/bvc_subpfx.c), which dumps   *)
(*     the sub-prefixes that appear and disappear from view to view.       *)
(* Each part has its own specifications (SpecSender, SpecSync, SpecFf and  *)
(* SpecGs; SpecFile, SpecFilter, SpecReadCb, SpecCorrupt, SpecWriteIo,     *)
(* SpecReadNull and SpecPrint; SpecRt; SpecKafka, SpecKafkaTopics and      *)
(* SpecGc; SpecAr; SpecSubpfx); the variables of the parts a               *)
(* specification does not drive keep their initial value.                  *)
(***************************************************************************)
EXTENDS Integers, Sequences, FiniteSets, TLC

VARIABLES
  vs_io,            \* bvc_viewsender_state_t: which client is non-NULL
  vs_sync_interval, \* bvc_viewsender_state_t.sync_interval
  vs_parent,        \* bvc_viewsender_state_t.parent_view (NoView = NULL)
  vs_calls,         \* the send_view calls made so far, in order
  vs_last           \* the last process_view call: its argument and outcome

vs_vars == <<vs_io, vs_sync_interval, vs_parent, vs_calls, vs_last>>

VARIABLES
  f_ndebug,   \* whether the build defines NDEBUG (assert() compiled out)
  f_view,     \* the view the writing process holds
  f_stream,   \* the bytes of the file
  f_writes,   \* the bgpview_io_file_write calls made so far, in order
  f_pos,      \* the reading process's offset in the file
  f_rview,    \* the view the reading process holds
  f_reads,    \* the bgpview_io_file_read calls made so far, in order
  f_edits,    \* the changes the writing process made to its view
  f_damage    \* what happened to the file after it was written

f_vars ==
  <<f_ndebug, f_view, f_stream, f_writes, f_pos, f_rview, f_reads, f_edits,
    f_damage>>

VARIABLES
  rt,         \* the routing-table engine: its peers, their per-prefix
              \* information and the part of the view they drive
  rt_ev       \* the number of elements handled, the last one, and the
              \* (peer, prefix) information removed when it was handled

rt_vars == <<rt, rt_ev>>

VARIABLES
  k_client,   \* bgpview_io_kafka_t: the Kafka client
  k_call,     \* the call of start or destroy in progress, with its locals
  k_log       \* how many calls were made, and what the last one did

k_vars == <<k_client, k_call, k_log>>

VARIABLES
  gc,         \* the gc_topics_t of a global consumer, each with its worker
  gc_main     \* the call of free_gc_topics the main thread is in

gc_vars == <<gc, gc_main>>

VARIABLES
  ar,         \* bvc_archiver_state_t: the archiver consumer
  ar_ev       \* the last call made to the archiver and what it did

ar_vars == <<ar, ar_ev>>

VARIABLES
  so,         \* the view-sender's options: argv, the strings, the filter
  so_ev       \* the last call of parse_args, filter_ff or graphite_safe

so_vars == <<so, so_ev>>

VARIABLES
  pr          \* the last call of bgpview_io_file_print and what it printed

pr_vars == <<pr>>

VARIABLES
  sp,         \* bvc_subpfx_state_t: the sub-prefix consumer
  sp_ev       \* the calls made to the sub-prefix consumer: how many, the
              \* last one and the one before it

sp_vars == <<sp, sp_ev>>

\* the variables of the parts after the Kafka client
y_vars == <<gc_vars, ar_vars, so_vars, pr_vars, sp_vars>>

\* the variables the steps of each of these parts leave alone
gc_others ==
  <<vs_vars, f_vars, rt_vars, k_vars, ar_vars, so_vars, pr_vars, sp_vars>>
ar_others ==
  <<vs_vars, f_vars, rt_vars, k_vars, gc_vars, so_vars, pr_vars, sp_vars>>
so_others ==
  <<vs_vars, f_vars, rt_vars, k_vars, gc_vars, ar_vars, pr_vars, sp_vars>>
sp_others ==
  <<vs_vars, f_vars, rt_vars, k_vars, gc_vars, ar_vars, so_vars, pr_vars>>

\* the variables of the parts other than the view sender and the file codec
x_vars == <<rt_vars, k_vars, y_vars>>

vars == <<vs_vars, f_vars, x_vars>>

(***************************************************************************)
(* Bounds of the model.                                                    *)
(***************************************************************************)
\* send_view calls in one run
MaxCalls == 3
\* the model's uint32_t holds the values 0 .. TimeLimit - 1, and its
\* arithmetic is modulo TimeLimit, as that of uint32_t is modulo 2^32
TimeLimit == 8
\* view times are 0..MaxViewTime
MaxViewTime == 4
\* changes the writing process makes to its view in one run
MaxEdits == 1
\* bgpview_io_file_write calls in one run
MaxWrites == 2
\* bgpview_io_file_read calls in one run
MaxReads == 3

NoView == [null |-> TRUE]

(***************************************************************************)
(* View-sender                                                             *)
(***************************************************************************)

\* the -s values the runs are configured with (both positive)
SyncIntervals == {2, 3}

\* a view as the sender sees it: its time and its content
SenderViews == [time : 0..MaxViewTime, data : {0, 1}]

NoCall ==
  [called |-> FALSE, view |-> NoView, before |-> NoView, sent |-> "none",
   pvp |-> NoView, ret |-> 0]

\* bgpview_clear followed by a bgpview_copy that failed part-way
ClearedView(p) == [time |-> p.time, data |-> 0]

\* mutant: the division is dropped, so only time 0 is on the cadence
sync_time_of_nodiv(view_time, sync_interval) ==
  view_time \div (sync_interval * sync_interval)

\* uint32_t sync_time = (view_time / sync_interval) * sync_interval:
\* sync_interval is an int, converted to uint32_t for both operations (a
\* negative one becomes 2^32 minus its magnitude); the product never
\* exceeds view_time, so the arithmetic does not wrap. The interval is
\* not 0 here
sync_time_of(view_time, sync_interval) ==
  LET u == IF sync_interval < 0 THEN TimeLimit + sync_interval
           ELSE sync_interval
  IN  (view_time \div u) * u

\* mutant: every view is taken for a sync frame
need_sync_always(parent, view_time, sync_time) == TRUE

\* mutant: a sync frame is sent only while there is no parent view
need_sync_parent_only(parent, view_time, sync_time) ==
  parent = NoView

\* "are we sending a sync frame or a diff frame?"
need_sync(parent, view_time, sync_time) ==
  (parent = NoView) \/ (view_time = sync_time)

\* mutant: the out-of-step check is missing
out_of_step_never(view_time, sync_time) == FALSE

\* "refusing to send out-of-step"
out_of_step(view_time, sync_time) == view_time # sync_time

\* bvc_viewsender_process_view, Kafka branch. With a sync_interval of 0
\* the division is undefined: the process is ended by the trap (SIGFPE),
\* or, where the division does not trap, the quotient is 0
process_view_kafka(view, send_ok, mem_ok) ==
  LET view_time == view.time
      st        == IF vs_sync_interval = 0 THEN 0
                   ELSE sync_time_of(view_time, vs_sync_interval)
      sync      == need_sync(vs_parent, view_time, st)
      pvp       == IF sync THEN NoView ELSE vs_parent
      kind      == IF sync THEN "sync" ELSE "diff"
      call      == [kind |-> kind, time |-> view_time, pvp |-> pvp, ok |-> send_ok]
      base      == [called |-> TRUE, view |-> view, before |-> vs_parent,
                    sent |-> kind, pvp |-> pvp, ret |-> 0]
      trap      ==
        /\ vs_sync_interval = 0
        /\ vs_last' = [base EXCEPT !.sent = "SIGFPE", !.pvp = NoView]
        /\ UNCHANGED <<vs_parent, vs_calls>>
      go        ==
        IF sync /\ out_of_step(view_time, st)
        THEN \* skip the publication
             /\ vs_last' = [base EXCEPT !.sent = "none", !.pvp = NoView]
             /\ UNCHANGED <<vs_parent, vs_calls>>
        ELSE /\ vs_calls' = Append(vs_calls, call)
             /\ IF ~send_ok
                THEN /\ vs_last' = [base EXCEPT !.ret = -1]
                     /\ UNCHANGED vs_parent
                ELSE IF vs_parent = NoView
                THEN \* bgpview_dup
                     IF mem_ok
                     THEN vs_parent' = view /\ vs_last' = base
                     ELSE vs_parent' = NoView /\ vs_last' = [base EXCEPT !.ret = -1]
                ELSE \* bgpview_clear, bgpview_copy
                     IF mem_ok
                     THEN vs_parent' = view /\ vs_last' = base
                     ELSE /\ vs_parent' = ClearedView(vs_parent)
                          /\ vs_last' = [base EXCEPT !.ret = -1]
  IN  trap \/ go

\* bvc_viewsender_process_view, ZMQ branch
process_view_zmq(view, send_ok) ==
  /\ vs_calls' = Append(vs_calls,
                        [kind |-> "zmq", time |-> view.time, pvp |-> NoView,
                         ok |-> send_ok])
  /\ vs_last' = [called |-> TRUE, view |-> view, before |-> vs_parent,
                 sent |-> "zmq", pvp |-> NoView,
                 ret |-> IF send_ok THEN 0 ELSE -1]
  /\ UNCHANGED vs_parent

ProcessViewKafka ==
  /\ vs_io = "kafka"
  /\ vs_last.sent # "SIGFPE"
  /\ Len(vs_calls) < MaxCalls
  /\ \E view \in SenderViews, send_ok \in BOOLEAN, mem_ok \in BOOLEAN :
       process_view_kafka(view, send_ok, mem_ok)
  /\ UNCHANGED <<vs_io, vs_sync_interval>>
  /\ UNCHANGED <<f_vars, x_vars>>

ProcessViewZmq ==
  /\ vs_io = "zmq"
  /\ Len(vs_calls) < MaxCalls
  /\ \E view \in SenderViews, send_ok \in BOOLEAN :
       process_view_zmq(view, send_ok)
  /\ UNCHANGED <<vs_io, vs_sync_interval>>
  /\ UNCHANGED <<f_vars, x_vars>>

(***************************************************************************)
(* Claims about the view-sender                                            *)
(***************************************************************************)

OnCadence(t) == t % vs_sync_interval = 0

\* C1: with the Kafka module, a view whose time is a multiple of
\* sync_interval is sent as a sync frame (send_view gets a NULL parent),
\* with or without a parent view; a view whose time is no multiple and for
\* which a parent view exists is sent as a diff frame against that parent.
C1_SyncOrDiff ==
  (vs_io = "kafka" /\ vs_last.called) =>
    /\ OnCadence(vs_last.view.time) =>
         /\ vs_last.sent = "sync"
         /\ vs_last.pvp = NoView
         /\ vs_calls # <<>>
         /\ vs_calls[Len(vs_calls)].kind = "sync"
         /\ vs_calls[Len(vs_calls)].pvp = NoView
         /\ vs_calls[Len(vs_calls)].time = vs_last.view.time
    /\ (~OnCadence(vs_last.view.time) /\ vs_last.before # NoView) =>
         /\ vs_last.sent = "diff"
         /\ vs_last.pvp = vs_last.before
         /\ vs_calls # <<>>
         /\ vs_calls[Len(vs_calls)].kind = "diff"
         /\ vs_calls[Len(vs_calls)].pvp = vs_last.before
         /\ vs_calls[Len(vs_calls)].time = vs_last.view.time

\* a sync frame was sent although a parent view existed, after a diff frame
C1_Witness ==
  /\ vs_io = "kafka"
  /\ vs_last.called
  /\ vs_last.sent = "sync"
  /\ vs_last.before # NoView
  /\ \E i \in 1..Len(vs_calls) : vs_calls[i].kind = "diff"

\* C2: while no parent view exists, a view whose time is no multiple of
\* sync_interval is skipped (process_view returns 0, send is not called, the
\* parent stays absent); so the first frame published is a sync frame and
\* no diff frame is sent before a sync frame was sent successfully.
C2_SkipUntilAligned ==
  vs_io = "kafka" =>
    /\ (vs_last.called /\ vs_last.before = NoView
        /\ ~OnCadence(vs_last.view.time)) =>
         /\ vs_last.sent = "none"
         /\ vs_last.ret = 0
         /\ vs_parent = NoView
    /\ vs_calls # <<>> => vs_calls[1].kind = "sync"
    /\ \A i \in 1..Len(vs_calls) :
         vs_calls[i].kind = "diff" =>
           \E j \in 1..(i - 1) : vs_calls[j].kind = "sync" /\ vs_calls[j].ok
    /\ \A i \in 1..Len(vs_calls) :
         vs_calls[i].kind = "sync" => vs_calls[i].time % vs_sync_interval = 0

\* an out-of-step view was skipped before anything was published
C2_Witness ==
  /\ vs_io = "kafka"
  /\ vs_last.called
  /\ vs_last.sent = "none"
  /\ ~OnCadence(vs_last.view.time)
  /\ vs_calls = <<>>
  /\ vs_parent = NoView

(***************************************************************************)
(* Binary view file: data                                                  *)
(***************************************************************************)

\* magic numbers of the format
VIEW_MAGIC == 1111969878
VIEW_START_MAGIC == 1398035028
VIEW_END_MAGIC == 1447382596
VIEW_PEER_END_MAGIC == 1346719300
VIEW_PATH_END_MAGIC == 1346458696
VIEW_PFX_END_MAGIC == 1480937028
BUFFER_LEN == 1024

\* the peer signatures, prefixes and AS paths of the runs. Every byte of
\* every field is below 128 (so is every byte of the magic numbers).
SigA ==
  [collector_str |-> <<114, 48>>,
   peer_ip_addr |-> [version |-> 4, addr |-> <<10, 0, 0, 1>>],
   peer_asnumber |-> 7018]
SigB ==
  [collector_str |-> <<114>>,
   peer_ip_addr |->
     [version |-> 6, addr |-> <<32, 1, 6, 124, 0, 0, 0, 0, 0, 0, 0, 0, 0, 0, 0, 1>>],
   peer_asnumber |-> 3356]

PfxA == [address |-> [version |-> 4, addr |-> <<10, 1, 0, 0>>], mask_len |-> 16]
PfxB ==
  [address |->
     [version |-> 6, addr |-> <<0, 0, 0, 0, 0, 0, 0, 0, 0, 0, 0, 0, 0, 0, 0, 0>>],
   mask_len |-> 0]
PfxOrder == <<PfxA, PfxB>>
Pfxs == {PfxA, PfxB}

\* AS_SEQUENCE 7018; the empty path; AS_SET {7018, 3356}
PathSeq == [data |-> <<2, 1, 106, 27, 0, 0>>, is_core |-> 1]
PathEmpty == [data |-> <<>>, is_core |-> 1]
PathSet == [data |-> <<1, 2, 106, 27, 0, 0, 28, 13, 0, 0>>, is_core |-> 0]

\* the writing process's stores: peer ids are 1.., path indexes are 0..
WriterSigs == <<SigA, SigB>>
WriterPaths == <<PathSeq, PathEmpty, PathSet>>
WriterPeerIds == 1..Len(WriterSigs)
\* the path index of the routes of each peer of the runs
PeerPathIdx == <<0, 2>>

RangeOf(f) == {f[x] : x \in DOMAIN f}
\* the element of a one-element set. The({e : x \in {v}}) is e with x bound
\* to the value of v: v is computed once, however often e uses x
The(S) == CHOOSE x \in S : TRUE
EmptyFun == [x \in {} |-> 0]

EmptyView(sigs, paths) ==
  [time |-> 0, sigs |-> sigs, paths |-> paths, peers |-> EmptyFun,
   pfxs |-> EmptyFun]

\* BGPVIEW_FIELD_ACTIVE on the three levels of a view
PeerActive(view, id) == id \in DOMAIN view.peers /\ view.peers[id].active
PfxPeerActive(view, pfx, id) ==
  /\ pfx \in DOMAIN view.pfxs
  /\ id \in DOMAIN view.pfxs[pfx]
  /\ view.pfxs[pfx][id].active
PfxActive(view, pfx) ==
  /\ pfx \in DOMAIN view.pfxs
  /\ \E id \in DOMAIN view.pfxs[pfx] : view.pfxs[pfx][id].active

\* the views a writing process can hold: a pfx-peer belongs to a peer of the
\* view, an active pfx-peer to an active peer, and every path index is one
\* of the store
WellFormed(view) ==
  /\ DOMAIN view.peers \subseteq 1..Len(view.sigs)
  /\ \A pfx \in DOMAIN view.pfxs :
       /\ DOMAIN view.pfxs[pfx] \subseteq DOMAIN view.peers
       /\ \A id \in DOMAIN view.pfxs[pfx] :
            /\ view.pfxs[pfx][id].path \in 0..(Len(view.paths) - 1)
            /\ view.pfxs[pfx][id].active => view.peers[id].active

\* a view from a table of peer states and a table of pfx-peer states
PeerStates == {"absent", "inactive", "active"}
SlotStates == {"absent", "inactive", "active"}
ViewOf(t, pst, slot) ==
  [time |-> t, sigs |-> WriterSigs, paths |-> WriterPaths,
   peers |-> [id \in {i \in WriterPeerIds : pst[i] # "absent"} |->
                [active |-> pst[id] = "active"]],
   pfxs |-> [pfx \in {q \in Pfxs :
                        \E i \in WriterPeerIds : slot[q][i] # "absent"} |->
               [id \in {i \in WriterPeerIds : slot[pfx][i] # "absent"} |->
                  [path |-> PeerPathIdx[id],
                   active |-> slot[pfx][id] = "active"]]]]

\* the times views have: the first views have the earliest, and
\* bgpview_set_time moves it within ViewTimes
ViewTimes == {3600, 3605}
FirstTime == CHOOSE t \in ViewTimes : \A u \in ViewTimes : t <= u

WriterViews ==
  {v \in {ViewOf(FirstTime, pst, slot) :
            pst \in [WriterPeerIds -> PeerStates],
            slot \in [Pfxs -> [WriterPeerIds -> SlotStates]]} :
     WellFormed(v)}

(***************************************************************************)
(* Binary view file: values as bytes                                       *)
(***************************************************************************)

\* WRITE_VAL of a one-byte value
U8(n) == <<n>>
\* htons / htonl, then WRITE_VAL: big-endian
U16BE(n) == <<(n \div 256) % 256, n % 256>>
U32BE(n) ==
  <<(n \div 16777216) % 256, (n \div 65536) % 256, (n \div 256) % 256, n % 256>>
\* WRITE_VAL of a value in host byte order (a little-endian host)
U16Host(n) == <<n % 256, (n \div 256) % 256>>
U32Host(n) ==
  <<n % 256, (n \div 256) % 256, (n \div 65536) % 256, (n \div 16777216) % 256>>

\* WRITE_MAGIC
WRITE_MAGIC(magic) == U32BE(VIEW_MAGIC) \o U32BE(magic)

\* ntohs / ntohl of bytes read, and values read in host byte order
FromBE16(b) == b[1] * 256 + b[2]
FromBE32(b) == b[1] * 16777216 + b[2] * 65536 + b[3] * 256 + b[4]
FromHost16(b) == b[2] * 256 + b[1]
FromHost32(b) == b[4] * 16777216 + b[3] * 65536 + b[2] * 256 + b[1]

(***************************************************************************)
(* Binary view file: writing                                               *)
(***************************************************************************)

\* a filter callback: the value it returns for each peer, each prefix and
\* each pfx-peer (negative: error, 0: leave out, positive: write)
NoCb == [null |-> TRUE]
cb_peer(cb, id) == IF cb.null THEN 1 ELSE cb.peer[id]
cb_pfx(cb, pfx) == IF cb.null THEN 1 ELSE cb.pfx[pfx]
cb_pfx_peer(cb, pfx, id) == IF cb.null THEN 1 ELSE cb.pfx_peer[pfx][id]

\* the iterators: ids in increasing order, prefixes in the order of PfxOrder
ActivePeerSeq(view) ==
  SelectSeq([i \in 1..Len(view.sigs) |-> i], LAMBDA id : PeerActive(view, id))
ActivePfxSeq(view) ==
  SelectSeq(PfxOrder, LAMBDA pfx : PfxActive(view, pfx))
\* mutant: the pfx-peers of a prefix are iterated whatever their state
AllPfxPeerSeq(view, pfx) ==
  SelectSeq([i \in 1..Len(view.sigs) |-> i],
            LAMBDA id : pfx \in DOMAIN view.pfxs /\ id \in DOMAIN view.pfxs[pfx])

ActivePfxPeerSeq(view, pfx) ==
  SelectSeq([i \in 1..Len(view.sigs) |-> i],
            LAMBDA id : PfxPeerActive(view, pfx, id))

write_ip(ip) ==
  IF ip.version = 4 THEN [ret |-> 0, bytes |-> U8(4) \o ip.addr]
  ELSE IF ip.version = 6 THEN [ret |-> 0, bytes |-> U8(16) \o ip.addr]
  ELSE [ret |-> -1, bytes |-> <<>>]

RECURSIVE write_peers_loop(_, _, _, _)
write_peers_loop(view, cb, ids, acc) ==
  IF ids = <<>>
  THEN [ret |-> 0,
        bytes |-> acc.bytes \o WRITE_MAGIC(VIEW_PEER_END_MAGIC)
                    \o U16BE(acc.peers_tx),
        peers |-> acc.peers]
  ELSE LET id == Head(ids)
           filter == cb_peer(cb, id)
           ps == view.sigs[id]
           ip == write_ip(ps.peer_ip_addr)
           rec == U16BE(id) \o U8(Len(ps.collector_str)) \o ps.collector_str
                    \o ip.bytes
       IN IF filter < 0
          THEN [ret |-> -1, bytes |-> acc.bytes, peers |-> acc.peers]
          ELSE IF filter = 0
          THEN The({write_peers_loop(view, cb, t, acc) : t \in {Tail(ids)}})
          ELSE IF ip.ret # 0
          THEN [ret |-> -1, bytes |-> acc.bytes \o rec, peers |-> acc.peers]
          ELSE The({write_peers_loop(view, cb, t, a) :
                      t \in {Tail(ids)},
                      a \in {[bytes |-> acc.bytes \o rec
                                          \o U32BE(ps.peer_asnumber),
                              peers_tx |-> acc.peers_tx + 1,
                              peers |-> Append(acc.peers, id)]}})

\* write_peers: the bytes written, and the peer ids written (in order)
write_peers(view, cb) ==
  write_peers_loop(view, cb, ActivePeerSeq(view),
                   [bytes |-> <<>>, peers_tx |-> 0, peers |-> <<>>])

RECURSIVE write_paths_loop(_, _, _)
write_paths_loop(paths, i, bytes) ==
  IF i > Len(paths)
  THEN bytes \o WRITE_MAGIC(VIEW_PATH_END_MAGIC) \o U32BE(Len(paths))
  ELSE write_paths_loop(paths, i + 1,
         bytes \o U32Host(i - 1) \o U8(paths[i].is_core)
           \o U16Host(Len(paths[i].data)) \o paths[i].data)

\* write_paths: every path of the store, used by the view or not
write_paths(view) ==
  [ret |-> 0, bytes |-> write_paths_loop(view.paths, 1, <<>>)]

RECURSIVE write_pfx_peers_loop(_, _, _, _, _)
write_pfx_peers_loop(view, cb, pfx, ids, acc) ==
  IF ids = <<>>
  THEN [ret |-> 0, bytes |-> acc.bytes, peers |-> acc.peers]
  ELSE LET id == Head(ids)
           filter == cb_pfx_peer(cb, pfx, id)
       IN IF filter < 0
          THEN [ret |-> -1, bytes |-> acc.bytes, peers |-> acc.peers]
          ELSE IF filter = 0
          THEN The({write_pfx_peers_loop(view, cb, pfx, t, acc) :
                      t \in {Tail(ids)}})
          ELSE The({write_pfx_peers_loop(view, cb, pfx, t, a) :
                      t \in {Tail(ids)},
                      a \in {[bytes |-> acc.bytes \o U16BE(id)
                                          \o U32Host(view.pfxs[pfx][id].path),
                              peers |-> Append(acc.peers, id)]}})

\* write_pfx_peers: the bytes written and the peer ids written; *peers_cnt
\* is the number of those ids
write_pfx_peers(view, cb, pfx) ==
  write_pfx_peers_loop(view, cb, pfx, ActivePfxPeerSeq(view, pfx),
                       [bytes |-> <<>>, peers |-> <<>>])

RECURSIVE write_pfxs_loop(_, _, _, _)
write_pfxs_loop(view, cb, pfxs, acc) ==
  IF pfxs = <<>>
  THEN [ret |-> 0,
        bytes |-> acc.bytes \o WRITE_MAGIC(VIEW_PFX_END_MAGIC)
                    \o U32BE(acc.pfx_cnt),
        hdrs |-> acc.hdrs, recs |-> acc.recs]
  ELSE LET pfx == Head(pfxs)
           filter == cb_pfx(cb, pfx)
           ip == write_ip(pfx.address)
           hdr == ip.bytes \o U8(pfx.mask_len)
           fail(bytes) == [ret |-> -1, bytes |-> acc.bytes \o bytes,
                           hdrs |-> acc.hdrs, recs |-> acc.recs]
           \* what follows the prefix's address and mask length
           rest(pp) ==
             IF pp.ret # 0 THEN fail(hdr \o pp.bytes)
             ELSE IF Len(pp.peers) = 0
             THEN \* "for a pfx to be sent it must have active peers":
                  \* continue
                  The({write_pfxs_loop(view, cb, t, a) :
                         t \in {Tail(pfxs)},
                         a \in {[acc EXCEPT !.bytes = @ \o hdr \o pp.bytes,
                                            !.hdrs = Append(@, pfx)]}})
             ELSE The({write_pfxs_loop(view, cb, t, a) :
                         t \in {Tail(pfxs)},
                         a \in {[bytes |-> acc.bytes \o hdr \o pp.bytes
                                             \o WRITE_MAGIC(VIEW_PEER_END_MAGIC)
                                             \o U16BE(Len(pp.peers)),
                                 pfx_cnt |-> acc.pfx_cnt + 1,
                                 hdrs |-> Append(acc.hdrs, pfx),
                                 recs |-> Append(acc.recs,
                                   [pfx |-> pfx, peers |-> pp.peers,
                                    cnt_at |-> Len(acc.bytes) + Len(hdr)
                                                 + Len(pp.bytes) + 8])]}})
       IN IF filter < 0 THEN fail(<<>>)
          ELSE IF filter = 0
          THEN The({write_pfxs_loop(view, cb, t, acc) : t \in {Tail(pfxs)}})
          ELSE IF ip.ret # 0 THEN fail(ip.bytes)
          ELSE The({rest(pp) : pp \in {write_pfx_peers(view, cb, pfx)}})

\* write_pfxs: the bytes written; the prefixes whose address and mask length
\* were written (hdrs); the prefix records that were completed (recs), each
\* with the offset of its pfx-peer count within the section
write_pfxs(view, cb) ==
  write_pfxs_loop(view, cb, ActivePfxSeq(view),
                  [bytes |-> <<>>, pfx_cnt |-> 0, hdrs |-> <<>>, recs |-> <<>>])

\* bgpview_io_file_write: the value returned and the bytes appended to the
\* file, with the offsets (within those bytes) at which the sections start
bgpview_io_file_write(view, cb) ==
  IF view = NoView
  THEN [ret |-> 0, bytes |-> <<>>, peers |-> <<>>, hdrs |-> <<>>,
        recs |-> <<>>, paths_at |-> 0, pfxs_at |-> 0, pfxs_end |-> 0]
  ELSE LET head == WRITE_MAGIC(VIEW_START_MAGIC) \o U32BE(view.time)
           sections(pe, pa, px) ==
             LET b1 == head \o pe.bytes
                 b2 == b1 \o pa.bytes
                 b3 == b2 \o px.bytes
                 out(ret, bytes, hdrs, recs) ==
                   [ret |-> ret, bytes |-> bytes, peers |-> pe.peers,
                    hdrs |-> hdrs, recs |-> recs, paths_at |-> Len(b1),
                    pfxs_at |-> Len(b2), pfxs_end |-> Len(b3)]
             IN IF pe.ret # 0 THEN out(-1, b1, <<>>, <<>>)
                ELSE IF pa.ret # 0 THEN out(-1, b2, <<>>, <<>>)
                ELSE IF px.ret # 0 THEN out(-1, b3, px.hdrs, px.recs)
                ELSE out(0, b3 \o WRITE_MAGIC(VIEW_END_MAGIC), px.hdrs, px.recs)
       IN The({sections(pe, pa, px) : pe \in {write_peers(view, cb)},
                                      pa \in {write_paths(view)},
                                      px \in {write_pfxs(view, cb)}})

(***************************************************************************)
(* The view operations the codec and its callers use                       *)
(***************************************************************************)

bgpview_set_time(view, t) == [view EXCEPT !.time = t]

bgpview_clear(view) ==
  [view EXCEPT !.time = 0, !.peers = EmptyFun, !.pfxs = EmptyFun]

\* the index of a signature in the store (0: not interned)
SigIndex(sigs, sig) ==
  IF \E i \in 1..Len(sigs) : sigs[i] = sig
  THEN CHOOSE i \in 1..Len(sigs) : sigs[i] = sig
  ELSE 0

\* bgpview_iter_add_peer: interns the signature, adds the peer (inactive) if
\* the view does not have it
bgpview_iter_add_peer(view, sig) ==
  LET old == SigIndex(view.sigs, sig)
      sigs == IF old = 0 THEN Append(view.sigs, sig) ELSE view.sigs
      id == IF old = 0 THEN Len(sigs) ELSE old
  IN [id |-> id,
      view |-> [view EXCEPT
                  !.sigs = sigs,
                  !.peers = IF id \in DOMAIN view.peers THEN @
                            ELSE [i \in DOMAIN @ \cup {id} |->
                                    IF i = id THEN [active |-> FALSE] ELSE @[i]]]]

bgpview_iter_activate_peer(view, id) ==
  [view EXCEPT !.peers[id].active = TRUE]

\* the index (0..) of a path in the store (-1: not stored)
PathIndex(paths, path) ==
  IF \E i \in 1..Len(paths) : paths[i] = path
  THEN (CHOOSE i \in 1..Len(paths) : paths[i] = path) - 1
  ELSE -1

\* bgpstream_as_path_store_insert_path: idempotent per (data, is_core)
as_path_store_insert_path(paths, data, is_core) ==
  LET path == [data |-> data, is_core |-> is_core]
      old == PathIndex(paths, path)
  IN IF old >= 0 THEN [paths |-> paths, id |-> old]
     ELSE [paths |-> Append(paths, path), id |-> Len(paths)]

\* bgpview_iter_add_pfx_peer_by_id / bgpview_iter_pfx_add_peer_by_id: adds
\* the prefix if the view does not have it, and the pfx-peer (inactive)
bgpview_iter_add_pfx_peer_by_id(view, pfx, id, path) ==
  LET old == IF pfx \in DOMAIN view.pfxs THEN view.pfxs[pfx] ELSE EmptyFun
      new == [i \in DOMAIN old \cup {id} |->
                IF i = id
                THEN [path |-> path,
                      active |-> IF id \in DOMAIN old THEN old[id].active
                                 ELSE FALSE]
                ELSE old[i]]
  IN [view EXCEPT
        !.pfxs = [q \in DOMAIN @ \cup {pfx} |-> IF q = pfx THEN new ELSE @[q]]]

\* bgpview_iter_pfx_activate_peer: the pfx-peer becomes active, and with it
\* its peer (the prefix is active as soon as one of its pfx-peers is)
bgpview_iter_pfx_activate_peer(view, pfx, id) ==
  [view EXCEPT
     !.pfxs[pfx][id].active = TRUE,
     !.peers = IF id \in DOMAIN @ THEN [@ EXCEPT ![id].active = TRUE] ELSE @]

\* bgpview_iter_pfx_deactivate_peer
bgpview_iter_pfx_deactivate_peer(view, pfx, id) ==
  [view EXCEPT !.pfxs[pfx][id].active = FALSE]

(***************************************************************************)
(* Binary view file: reading                                               *)
(***************************************************************************)

\* What one bgpview_io_file_read call finds in the variables it never
\* assigned: g.u8 in those of one byte, g.n in the others; g.add0 is what
\* adding a pfx-peer for the reserved peer id 0 does ("fail": -1, "add": the
\* pfx-peer is added).
Garbage ==
  {[u8 |-> 0, n |-> 0, add0 |-> "fail"], [u8 |-> 4, n |-> 1, add0 |-> "add"],
   [u8 |-> 0, n |-> 1, add0 |-> "fail"], [u8 |-> 4, n |-> 0, add0 |-> "add"]}

Avail(s, pos) == Len(s) - pos
Take(s, pos, n) == SubSeq(s, pos + 1, pos + n)

\* wandio_read of n bytes at pos: whether all n were read, the bytes read,
\* the offset afterwards
wandio_read(s, pos, n) ==
  IF Avail(s, pos) >= n
  THEN [ok |-> TRUE, bytes |-> Take(s, pos, n), pos |-> pos + n]
  ELSE [ok |-> FALSE, bytes |-> Take(s, pos, Avail(s, pos)), pos |-> Len(s)]

\* the memory of a variable that was never assigned: the bytes of g
Uninit1(g) == U8(g.u8)
Uninit2(g) == U16Host(g.n)
Uninit4(g) == U32Host(g.n)

\* READ_VAL(to) at pos, to being the bytes the variable holds: the bytes
\* read replace the first bytes of the variable; a short read only prints a
\* message
READ_VAL(s, pos, to) ==
  LET k == IF Avail(s, pos) >= Len(to) THEN Len(to) ELSE Avail(s, pos)
  IN [to |-> Take(s, pos, k) \o SubSeq(to, k + 1, Len(to)), pos |-> pos + k]

\* check_magic: whether the 8 bytes at pos are the generic magic and the
\* given one (the caller then advances by 8)
check_magic(s, pos, magic) ==
  /\ Avail(s, pos) >= 8
  /\ FromBE32(Take(s, pos, 4)) = VIEW_MAGIC
  /\ FromBE32(Take(s, pos + 4, 4)) = magic

NoIp == [version |-> 0, addr |-> <<>>]

\* mutant: a length other than 4 and 0 is taken for the length of an IPv6
\* address
read_ip_any_len(s, pos, g) ==
  LET l == READ_VAL(s, pos, Uninit1(g))
      len == l.to[1]
      a == wandio_read(s, l.pos, len)
  IN IF len # 0 /\ a.ok
     THEN [ret |-> 0, pos |-> a.pos,
           ip |-> [version |-> IF len = 4 THEN 4 ELSE 6, addr |-> a.bytes]]
     ELSE [ret |-> -1, pos |-> a.pos, ip |-> NoIp]

read_ip(s, pos, g) ==
  LET l == READ_VAL(s, pos, Uninit1(g))
      len == l.to[1]
      a == wandio_read(s, l.pos, len)
  IN IF len = 4 /\ a.ok
     THEN [ret |-> 0, pos |-> a.pos, ip |-> [version |-> 4, addr |-> a.bytes]]
     ELSE IF len = 16 /\ a.ok
     THEN [ret |-> 0, pos |-> a.pos, ip |-> [version |-> 6, addr |-> a.bytes]]
     ELSE IF len = 4 \/ len = 16
     THEN [ret |-> -1, pos |-> a.pos, ip |-> NoIp]
     ELSE [ret |-> -1, pos |-> l.pos, ip |-> NoIp]

\* the callbacks of bgpview_io_file_read: each is NULL or returns -1 for the
\* values in err, 0 for those in rej and 1 for the others
NoRcb == [null |-> TRUE]
NoRcbs == [peer |-> NoRcb, pfx |-> NoRcb, pfx_peer |-> NoRcb]
rcb_call(cb, x) ==
  IF cb.null THEN 1 ELSE IF x \in cb.err THEN -1 ELSE IF x \in cb.rej THEN 0 ELSE 1

\* assert(cond): whether execution goes on
assert_passes(cond, ndebug) == cond \/ ndebug

\* realloc of the peer id map to n entries, the new ones set to 0
GrowPeerMap(idmap, n) ==
  [i \in 0..(n - 1) |-> IF i \in DOMAIN idmap THEN idmap[i] ELSE 0]

\* one record of the peer section read at pos: peerid, collector name,
\* peer ip, peer asn. mem holds the bytes of peerid_orig, len and
\* ps.peer_asnumber; ret is -1 where read_peers goes to err
read_peer_record(s, pos, g, mem) ==
  LET r1 == READ_VAL(s, pos, mem.peerid_orig)
      r2 == READ_VAL(s, r1.pos, mem.len)
      r3 == wandio_read(s, r2.pos, r2.to[1])
      rec(ipr) ==
        LET r4 == READ_VAL(s, ipr.pos, mem.asn)
            m1 == [mem EXCEPT !.peerid_orig = U16Host(FromBE16(r1.to)),
                              !.len = r2.to]
        IN IF ~r3.ok THEN [ret |-> -1, pos |-> r3.pos, mem |-> m1]
           ELSE IF ipr.ret # 0 THEN [ret |-> -1, pos |-> ipr.pos, mem |-> m1]
           ELSE [ret |-> 0, pos |-> r4.pos,
                 mem |-> [m1 EXCEPT !.asn = U32Host(FromBE32(r4.to))],
                 peerid_orig |-> FromBE16(r1.to),
                 ps |-> [collector_str |-> r3.bytes, peer_ip_addr |-> ipr.ip,
                         peer_asnumber |-> FromBE32(r4.to)]]
  IN The({rec(ipr) : ipr \in {read_ip(s, r3.pos, g)}})

RECURSIVE read_peers_loop(_, _, _, _, _)
read_peers_loop(s, it, peer_cb, g, L) ==
  IF check_magic(s, L.pos, VIEW_PEER_END_MAGIC)
  THEN [L EXCEPT !.pos = @ + 8]
  ELSE LET body(rec) ==
             LET L1 == [L EXCEPT !.peers_rx = @ + 1, !.pos = rec.pos,
                                 !.mem = rec.mem]
                 filter == rcb_call(peer_cb, rec.ps)
                 cnt == IF rec.peerid_orig + 1 > L.idmap_cnt
                        THEN rec.peerid_orig + 1
                        ELSE L.idmap_cnt
                 added(ap) ==
                   [L1 EXCEPT
                      !.idmap = [GrowPeerMap(L.idmap, cnt) EXCEPT
                                   ![rec.peerid_orig] = ap.id],
                      !.idmap_cnt = cnt,
                      !.view = bgpview_iter_activate_peer(ap.view, ap.id)]
             IN IF rec.ret # 0 THEN [L1 EXCEPT !.st = "err"]
                ELSE IF ~it THEN L1
                ELSE IF filter < 0 THEN [L1 EXCEPT !.st = "err"]
                ELSE IF filter = 0 THEN L1
                ELSE The({added(ap) :
                            ap \in {bgpview_iter_add_peer(L.view, rec.ps)}})
       IN The({IF N.st = "ok" THEN read_peers_loop(s, it, peer_cb, g, N)
               ELSE N :
                 N \in {The({body(rec) :
                               rec \in {read_peer_record(s, L.pos, g,
                                                         L.mem)}})}})

\* read_peers: st is "ok" (the id map and its length are returned), "err"
\* (-1 is returned) or "abort" (an assertion failed); xfail tells whether
\* the count read differs from the number of records read
read_peers(s, pos, view, peer_cb, g, ndebug) ==
  LET count(L) ==
        LET rc == READ_VAL(s, L.pos, Uninit2(g))
            pc == FromBE16(rc.to)
            out(st, p) ==
              [st |-> st, pos |-> p, view |-> L.view, idmap |-> L.idmap,
               idmap_cnt |-> L.idmap_cnt, xfail |-> pc # L.peers_rx]
        IN IF L.st # "ok" THEN [out("err", L.pos) EXCEPT !.xfail = FALSE]
           ELSE IF ~assert_passes(pc = L.peers_rx, ndebug)
           THEN out("abort", rc.pos)
           ELSE out("ok", rc.pos)
  IN The({count(L) :
            L \in {read_peers_loop(s, view # NoView, peer_cb, g,
                     [st |-> "ok", pos |-> pos, view |-> view,
                      idmap |-> EmptyFun, idmap_cnt |-> 0, peers_rx |-> 0,
                      mem |-> [peerid_orig |-> Uninit2(g), len |-> Uninit1(g),
                               asn |-> Uninit4(g)]])}})

\* mutant: the path data is left in the file
read_path_record_no_data(s, pos, mem) ==
  LET r1 == READ_VAL(s, pos, mem.pathidx)
      r2 == READ_VAL(s, r1.pos, mem.is_core)
      r3 == READ_VAL(s, r2.pos, mem.pathlen)
  IN [ok |-> TRUE, pos |-> r3.pos,
      mem |-> [pathidx |-> r1.to, is_core |-> r2.to, pathlen |-> r3.to],
      pathidx |-> FromHost32(r1.to), is_core |-> r2.to[1],
      pathlen |-> FromHost16(r3.to), data |-> <<>>]

\* one record of the path section read at pos: path idx, is core, path len,
\* path data. mem holds the bytes of pathidx, is_core and pathlen
read_path_record(s, pos, mem) ==
  LET r1 == READ_VAL(s, pos, mem.pathidx)
      r2 == READ_VAL(s, r1.pos, mem.is_core)
      r3 == READ_VAL(s, r2.pos, mem.pathlen)
      rec(pathlen) ==
        LET r4 == wandio_read(s, r3.pos, pathlen)
        IN [ok |-> r4.ok, pos |-> r4.pos,
            mem |-> [pathidx |-> r1.to, is_core |-> r2.to, pathlen |-> r3.to],
            pathidx |-> FromHost32(r1.to), is_core |-> r2.to[1],
            pathlen |-> pathlen, data |-> r4.bytes]
  IN The({rec(pathlen) : pathlen \in {FromHost16(r3.to)}})

\* from this path index on, pathidx * 2 is not a positive int, and realloc
\* is asked for more than there is
PathIdxLimit == 1073741824

RECURSIVE read_paths_loop(_, _, _, _)
read_paths_loop(s, it, ndebug, L) ==
  IF check_magic(s, L.pos, VIEW_PATH_END_MAGIC)
  THEN [L EXCEPT !.pos = @ + 8]
  ELSE LET body(rec) ==
             LET cnt == IF rec.pathidx + 1 > L.idmap_cnt
                        THEN (IF rec.pathidx = 0 THEN 1 ELSE rec.pathidx * 2)
                        ELSE L.idmap_cnt
                 \* when nothing is left and the length kept from before is
                 \* 0, the loop goes round, with the same values, until
                 \* paths_rx is UINT32_MAX
                 L1 == [L EXCEPT !.paths_rx = @ + 1, !.pos = rec.pos,
                                 !.mem = rec.mem,
                                 !.spin = Avail(s, L.pos) = 0]
                 inserted(ins) ==
                   [L1 EXCEPT
                      !.idmap = [i \in DOMAIN @ \cup {rec.pathidx} |->
                                   IF i = rec.pathidx THEN ins.id ELSE @[i]],
                      !.idmap_cnt = cnt,
                      !.view = [@ EXCEPT !.paths = ins.paths]]
             IN IF ~assert_passes(rec.pathlen <= BUFFER_LEN, ndebug)
                THEN [L1 EXCEPT !.st = "abort"]
                ELSE IF Len(rec.data) > BUFFER_LEN
                THEN \* more bytes than pathdata holds were read into it
                     [L1 EXCEPT !.st = "ub"]
                ELSE IF ~rec.ok THEN [L1 EXCEPT !.st = "err"]
                ELSE IF ~it THEN L1
                ELSE IF rec.pathidx >= PathIdxLimit
                THEN [L1 EXCEPT !.st = "err"]
                ELSE The({inserted(ins) :
                            ins \in {as_path_store_insert_path(
                                       L.view.paths, rec.data, rec.is_core)}})
       IN The({IF N.st = "ok" /\ ~N.spin
               THEN read_paths_loop(s, it, ndebug, N)
               ELSE N :
                 N \in {The({body(rec) :
                               rec \in {read_path_record(s, L.pos, L.mem)}})}})

\* read_paths: as read_peers; the map is defined on the indexes read
read_paths(s, pos, view, g, ndebug) ==
  LET count(L) ==
        LET rc == READ_VAL(s, L.pos, Uninit4(g))
            pc == FromBE32(rc.to)
            differ == L.spin \/ pc # L.paths_rx
            out(st, p) ==
              [st |-> st, pos |-> p, view |-> L.view, idmap |-> L.idmap,
               idmap_cnt |-> L.idmap_cnt, xfail |-> differ]
        IN IF L.st # "ok" THEN [out(L.st, L.pos) EXCEPT !.xfail = FALSE]
           ELSE IF ~assert_passes(~differ, ndebug) THEN out("abort", rc.pos)
           ELSE out("ok", rc.pos)
  IN The({count(L) :
            L \in {read_paths_loop(s, view # NoView, ndebug,
                     [st |-> "ok", pos |-> pos, view |-> view,
                      idmap |-> EmptyFun, idmap_cnt |-> 0, paths_rx |-> 0,
                      spin |-> FALSE,
                      mem |-> [pathidx |-> Uninit4(g), is_core |-> Uninit1(g),
                               pathlen |-> Uninit2(g)]])}})

\* the pfx-peer records of one prefix. M.mem holds the bytes of mask_len,
\* peerid, pathidx and peer_cnt
RECURSIVE read_pfx_peers_loop(_, _, _, _, _, _, _, _, _)
read_pfx_peers_loop(s, it, skip_pfx, pfx, pfx_peer_cb, g, ndebug, maps, M) ==
  IF check_magic(s, M.pos, VIEW_PEER_END_MAGIC)
  THEN [M EXCEPT !.pos = @ + 8]
  ELSE LET body(r1, r2) ==
             LET peerid == FromBE16(r1.to)
                 pathidx == FromHost32(r2.to)
                 at_eof == Avail(s, M.pos) = 0
                 \* when nothing is left the loop goes round until j is
                 \* UINT16_MAX: peerid is what it was, with its bytes
                 \* swapped by ntohs each time round; two rounds show both
                 M1 == [M EXCEPT !.rx = @ + 1, !.pos = r2.pos,
                                 !.mem.peerid = U16Host(peerid),
                                 !.mem.pathidx = r2.to,
                                 !.eof = IF at_eof THEN @ + 1 ELSE @,
                                 !.spin = at_eof /\ M.eof >= 1]
                 peer_oob == ~(peerid < maps.peerid_map_cnt)
                 path_bad == pathidx \notin DOMAIN maps.pathid_map
                 filter == rcb_call(pfx_peer_cb,
                             M.view.paths[maps.pathid_map[pathidx] + 1])
                 newid == maps.peerid_map[peerid]
                 activated(added) ==
                   [M1 EXCEPT
                      !.added = @ + 1,
                      !.view = bgpview_iter_pfx_activate_peer(added, pfx,
                                                              newid)]
             IN IF ~it \/ skip_pfx THEN M1
                ELSE IF ~assert_passes(~peer_oob, ndebug)
                THEN [M1 EXCEPT !.st = "abort"]
                ELSE IF ~pfx_peer_cb.null /\ path_bad
                THEN [M1 EXCEPT !.st = "ub"]
                ELSE IF ~pfx_peer_cb.null /\ filter < 0
                THEN [M1 EXCEPT !.st = "err"]
                ELSE IF ~pfx_peer_cb.null /\ filter = 0 THEN M1
                ELSE IF peer_oob \/ path_bad THEN [M1 EXCEPT !.st = "ub"]
                ELSE IF newid = 0 /\ g.add0 = "fail"
                THEN [M1 EXCEPT !.st = "err"]
                ELSE The({activated(added) :
                            added \in {bgpview_iter_add_pfx_peer_by_id(
                                         M.view, pfx, newid,
                                         maps.pathid_map[pathidx])}})
           step(r1) ==
             The({body(r1, r2) :
                    r2 \in {READ_VAL(s, r1.pos, M.mem.pathidx)}})
       IN The({IF N.st = "ok" /\ ~N.spin
               THEN read_pfx_peers_loop(s, it, skip_pfx, pfx, pfx_peer_cb, g,
                                        ndebug, maps, N)
               ELSE N :
                 N \in {The({step(r1) :
                               r1 \in {READ_VAL(s, M.pos, M.mem.peerid)}})}})

\* one prefix of the prefix section read at pos: pfx ip, pfx len
read_pfx_header(s, pos, g, mask_len) ==
  LET hdr(ipr) ==
        LET r1 == READ_VAL(s, ipr.pos, mask_len)
        IN IF ipr.ret # 0
           THEN [ret |-> -1, pos |-> ipr.pos, mask_len |-> mask_len]
           ELSE [ret |-> 0, pos |-> r1.pos, mask_len |-> r1.to,
                 pfx |-> [address |-> ipr.ip, mask_len |-> r1.to[1]]]
  IN The({hdr(ipr) : ipr \in {read_ip(s, pos, g)}})

RECURSIVE read_pfxs_loop(_, _, _, _, _, _, _)
read_pfxs_loop(s, it, cbs, g, ndebug, maps, L) ==
  IF check_magic(s, L.pos, VIEW_PFX_END_MAGIC)
  THEN [L EXCEPT !.pos = @ + 8]
  ELSE LET L1 == [L EXCEPT !.pfx_rx = @ + 1]
           count(M) ==
             LET rc == READ_VAL(s, M.pos, M.mem.peer_cnt)
                 peer_cnt == FromBE16(rc.to)
                 differ == M.spin \/ peer_cnt # M.rx
                 L2 == [L1 EXCEPT
                          !.pos = rc.pos, !.view = M.view,
                          !.mem = [M.mem EXCEPT
                                     !.peer_cnt = U16Host(peer_cnt)]]
             IN IF M.st # "ok"
                THEN [L1 EXCEPT !.st = M.st, !.pos = M.pos, !.view = M.view]
                ELSE IF ~assert_passes(~differ, ndebug)
                THEN [L2 EXCEPT !.st = "abort", !.xfail = TRUE]
                ELSE [L2 EXCEPT !.xfail = @ \/ differ]
           body(h) ==
             LET filter == rcb_call(cbs.pfx, h.pfx)
             IN IF h.ret # 0 THEN [L1 EXCEPT !.st = "err", !.pos = h.pos]
                ELSE IF filter < 0 THEN [L1 EXCEPT !.st = "err", !.pos = h.pos]
                ELSE The({count(M) :
                            M \in {read_pfx_peers_loop(s, it, filter = 0,
                                     h.pfx, cbs.pfx_peer, g, ndebug, maps,
                                     [st |-> "ok", pos |-> h.pos,
                                      view |-> L.view, added |-> 0, rx |-> 0,
                                      eof |-> 0, spin |-> FALSE,
                                      mem |-> [L.mem EXCEPT
                                                 !.mask_len = h.mask_len]])}})
       IN The({IF N.st = "ok"
               THEN read_pfxs_loop(s, it, cbs, g, ndebug, maps, N)
               ELSE N :
                 N \in {The({body(h) :
                               h \in {read_pfx_header(s, L.pos, g,
                                                      L.mem.mask_len)}})}})

\* read_pfxs: st is "ok" (0 is returned), "err" (-1), "abort" (an assertion
\* failed) or "ub" (an id map was read outside what was set)
read_pfxs(s, pos, view, cbs, g, ndebug, maps) ==
  LET count(L) ==
        LET rc == READ_VAL(s, L.pos, Uninit4(g))
            pfx_cnt == FromBE32(rc.to)
            out(st, p, x) ==
              [st |-> st, pos |-> p, view |-> L.view, xfail |-> x]
        IN IF L.st # "ok" THEN out(L.st, L.pos, L.xfail)
           ELSE IF ~assert_passes(L.pfx_rx = pfx_cnt, ndebug)
           THEN out("abort", rc.pos, TRUE)
           ELSE out("ok", rc.pos, L.xfail \/ L.pfx_rx # pfx_cnt)
  IN The({count(L) :
            L \in {read_pfxs_loop(s, view # NoView, cbs, g, ndebug, maps,
                     [st |-> "ok", pos |-> pos, view |-> view, pfx_rx |-> 0,
                      xfail |-> FALSE,
                      mem |-> [mask_len |-> Uninit1(g), peerid |-> Uninit2(g),
                               pathidx |-> Uninit4(g),
                               peer_cnt |-> Uninit2(g)]])}})

\* "ERROR: Missing end-of-view magic number" is printed, and the view is
\* reported as valid
end_magic_result(found) == 1

\* mutant: the end-of-view magic is left in the file
after_end_magic_left(pos, found) == pos

\* the offset after the check for the end-of-view magic, which check_magic
\* consumes when it is there
after_end_magic(pos, found) == IF found THEN pos + 8 ELSE pos

\* mutant: fewer bytes than asked for count as the end of the file
wandio_peek_whole(s, pos, n) == IF Avail(s, pos) >= n THEN n ELSE 0

\* wandio_peek of n bytes at pos: the number of bytes there are, up to n
wandio_peek(s, pos, n) == IF Avail(s, pos) >= n THEN n ELSE Avail(s, pos)

\* bgpview_io_file_read at offset pos of s, into view (NoView: NULL).
\* st: "ret" (ret is the value returned), "abort" (assert failed) or "ub";
\* xfail: a count differed from the records read; vend: the end magic was
\* found
bgpview_io_file_read(s, pos, view, cbs, g, ndebug) ==
  LET out(st, ret, p, v, x, e) ==
        [st |-> st, ret |-> ret, pos |-> p, view |-> v, xfail |-> x,
         vend |-> e]
      stop(r, x) == out(IF r.st = "err" THEN "ret" ELSE r.st, -1, r.pos,
                        r.view, x, FALSE)
      \* u32 holds the 4 bytes that were peeked at
      tr == READ_VAL(s, pos + 8, Take(s, pos, 4))
      v1 == IF view = NoView THEN view
            ELSE bgpview_set_time(view, FromBE32(tr.to))
      after_pfxs(pe, pa, px) ==
        LET found == check_magic(s, px.pos, VIEW_END_MAGIC)
        IN IF px.st # "ok" THEN stop(px, pe.xfail \/ pa.xfail \/ px.xfail)
           ELSE out("ret", end_magic_result(found),
                    after_end_magic(px.pos, found), px.view,
                    pe.xfail \/ pa.xfail \/ px.xfail, found)
      after_paths(pe, pa) ==
        IF pa.st # "ok" THEN stop(pa, pe.xfail \/ pa.xfail)
        ELSE The({after_pfxs(pe, pa, px) :
                    px \in {read_pfxs(s, pa.pos, pa.view, cbs, g, ndebug,
                              [peerid_map |-> pe.idmap,
                               peerid_map_cnt |-> pe.idmap_cnt,
                               pathid_map |-> pa.idmap,
                               pathid_map_cnt |-> pa.idmap_cnt])}})
      after_peers(pe) ==
        IF pe.st # "ok" THEN stop(pe, pe.xfail)
        ELSE The({after_paths(pe, pa) :
                    pa \in {read_paths(s, pe.pos, pe.view, g, ndebug)}})
  IN IF wandio_peek(s, pos, 4) = 0
     THEN out("ret", 0, pos, view, FALSE, FALSE)
     ELSE IF ~check_magic(s, pos, VIEW_START_MAGIC)
     THEN out("ret", -1, pos, view, FALSE, FALSE)
     ELSE The({after_peers(pe) :
                 pe \in {read_peers(s, tr.pos, v1, cbs.peer, g, ndebug)}})

(***************************************************************************)
(* Binary view file: the writing and the reading process                   *)
(***************************************************************************)

NoDamage == [kind |-> "none"]

\* the views a reading process starts with: nothing in the view; its stores
\* are new, or hold a signature and a path from earlier work
ReaderViews == {EmptyView(<<>>, <<>>), EmptyView(<<SigB>>, <<PathSet>>)}

LastOf(seq) == seq[Len(seq)]

\* the writing process changes its view after a write
FileSetTime ==
  /\ f_writes # <<>>
  /\ f_reads = <<>>
  /\ f_edits < MaxEdits
  /\ \E t \in ViewTimes \ {f_view.time} :
       f_view' = bgpview_set_time(f_view, t)
  /\ f_edits' = f_edits + 1
  /\ UNCHANGED <<f_ndebug, f_stream, f_writes, f_pos, f_rview, f_reads,
                 f_damage>>
  /\ UNCHANGED <<vs_vars, x_vars>>

FileDeactivate ==
  /\ f_writes # <<>>
  /\ f_reads = <<>>
  /\ f_edits < MaxEdits
  /\ \E pfx \in DOMAIN f_view.pfxs :
       \E id \in DOMAIN f_view.pfxs[pfx] :
         /\ f_view.pfxs[pfx][id].active
         /\ f_view' = bgpview_iter_pfx_deactivate_peer(f_view, pfx, id)
  /\ f_edits' = f_edits + 1
  /\ UNCHANGED <<f_ndebug, f_stream, f_writes, f_pos, f_rview, f_reads,
                 f_damage>>
  /\ UNCHANGED <<vs_vars, x_vars>>

\* the writing process appends its view to the file
WriteCall(cb) ==
  /\ f_reads = <<>>
  /\ f_damage = NoDamage
  /\ Len(f_writes) < MaxWrites
  /\ \E w \in {bgpview_io_file_write(f_view, cb)} :
        /\ f_stream' = f_stream \o w.bytes
        /\ f_writes' = Append(f_writes,
             [view |-> f_view, cb |-> cb, ret |-> w.ret, at |-> Len(f_stream),
              len |-> Len(w.bytes), peers |-> w.peers, hdrs |-> w.hdrs,
              recs |-> w.recs, paths_at |-> w.paths_at,
              pfxs_at |-> w.pfxs_at, pfxs_end |-> w.pfxs_end])
  /\ UNCHANGED <<f_ndebug, f_view, f_pos, f_rview, f_reads, f_edits, f_damage>>
  /\ UNCHANGED <<vs_vars, x_vars>>

FileWrite == WriteCall(NoCb)

\* the reading process calls bgpview_io_file_read at its offset, as long as
\* the last call returned 1
ReadCall(cbs) ==
  /\ f_writes # <<>>
  /\ Len(f_reads) < MaxReads
  /\ f_reads # <<>> =>
       LastOf(f_reads).st = "ret" /\ LastOf(f_reads).ret = 1
  /\ \E g \in Garbage :
       \E r \in {bgpview_io_file_read(f_stream, f_pos, f_rview, cbs, g,
                                      f_ndebug)} :
          /\ f_reads' = Append(f_reads,
               [st |-> r.st, ret |-> r.ret, from |-> f_pos, pos |-> r.pos,
                before |-> f_rview, view |-> r.view, xfail |-> r.xfail,
                vend |-> r.vend, cbs |-> cbs])
          /\ f_pos' = r.pos
          /\ f_rview' = r.view
  /\ UNCHANGED <<f_ndebug, f_view, f_stream, f_writes, f_edits, f_damage>>
  /\ UNCHANGED <<vs_vars, x_vars>>

FileRead == ReadCall(NoRcbs)

\* the reading process reads the next view into a view that holds nothing
FileReadCleared ==
  /\ f_rview = bgpview_clear(f_rview)
  /\ FileRead

\* the reading process clears its view between two reads
FileClear ==
  /\ f_reads # <<>>
  /\ Len(f_reads) < MaxReads
  /\ LastOf(f_reads).st = "ret" /\ LastOf(f_reads).ret = 1
  /\ f_rview # bgpview_clear(f_rview)
  /\ f_rview' = bgpview_clear(f_rview)
  /\ UNCHANGED <<f_ndebug, f_view, f_stream, f_writes, f_pos, f_reads,
                 f_edits, f_damage>>
  /\ UNCHANGED <<vs_vars, x_vars>>


(***************************************************************************)
(* Routing-table engine (libroutingtables): one collector, its peers and   *)
(* their per-prefix information, with the part of the view they drive.     *)
(* Only routingtables_int.h is at hand; the element handlers follow the    *)
(* description of the engine.                                              *)
(***************************************************************************)
RT_DEPRECATED_INFO_INTERVAL == 86400
RT_INITIAL_PFXSTATUS == 0
RT_ANNOUNCED_PFXSTATUS == 1
\* mutant: the under-construction flag is the bit of the announced flag
RT_UC_ANNOUNCED_PFXSTATUS_shared == RT_ANNOUNCED_PFXSTATUS

RT_UC_ANNOUNCED_PFXSTATUS == 16

\* elements handled in one run
MaxElems == 6

\* the elements and signals the engine receives, each with the fields of
\* its kind. Peer 1 of the collector sends RIBs and updates for prefixes 1
\* and 2 with paths 1 and 2, at two times; peer 2 sends only updates, for
\* prefix 1 with path 1, at the first time. Intervals end with the later
\* time or more than RT_DEPRECATED_INFO_INTERVAL after both.
RtElems ==
  LET ts == {101000, 101010}
      routes == [p : {1}, q : 1..2, path : 1..2, ts : ts]
      updates == routes \cup [p : {2}, q : {1}, path : {1}, ts : {101000}]
  IN UNION {
       [kind : {"rib_begin"}, p : {1}, ts : ts],
       {[kind |-> "rib_entry"] @@ r : r \in routes},
       [kind : {"rib_end"}],
       {[kind |-> "announce"] @@ r : r \in updates},
       {[kind |-> "withdrawal", p |-> r.p, q |-> r.q, ts |-> r.ts] :
          r \in updates},
       {[kind |-> "state", p |-> r.p, fsm |-> f, ts |-> r.ts] :
          r \in updates, f \in {"IDLE", "ESTABLISHED"}},
       [kind : {"interval_end"}, ts : {101010, 187420}]}

\* pfx_status & flag, and pfx_status with the flag set or cleared
pfx_status_has(st, flag) == (st \div flag) % 2 = 1
pfx_status_put(st, flag, on) ==
  IF pfx_status_has(st, flag) = on THEN st
  ELSE IF on THEN st + flag ELSE st - flag

\* perpfx_perpeer_info_t of a (peer, prefix) the engine knows nothing of,
\* with the pfx-peer's fields in the view (active, path)
RtNoInfo ==
  [present |-> FALSE, pfx_status |-> RT_INITIAL_PFXSTATUS, uc_as_path_id |-> 0,
   bgp_time_last_ts |-> 0, active |-> FALSE, path |-> 0]

\* mutant: the peer keeps the state it had when it is activated
fsm_after_activation_kept(fsm) == fsm

\* bgp_fsm_state of a peer that becomes active: "if the peer is active, then
\* its state is assumed ESTABLISHED"
fsm_after_activation(fsm) == "ESTABLISHED"

\* mutant: no update is stale
update_is_stale_never(ts, ref_rib_start) == FALSE

\* an update older than the start of the peer's reference RIB is dropped
update_is_stale(ts, ref_rib_start) == ts < ref_rib_start

\* the engine before its first element: no peer is known to be up, no RIB
\* is open, nothing is in the view
RtStart ==
  [fsm |-> [p \in 1..2 |-> "UNKNOWN"], active |-> [p \in 1..2 |-> FALSE],
   ref_rib_start |-> [p \in 1..2 |-> 0], ref_rib_end |-> [p \in 1..2 |-> 0],
   uc_rib_start |-> [p \in 1..2 |-> 0], uc_rib_end |-> [p \in 1..2 |-> 0],
   eovrib_flag |-> FALSE,
   pp |-> [p \in 1..2 |-> [q \in 1..2 |-> RtNoInfo]]]

\* element e, of the given kind, is handled next
RtTakes(e, kind) ==
  /\ rt_ev.n < MaxElems
  /\ e.kind = kind
  /\ rt_ev' = [n |-> rt_ev.n + 1, e |-> e, removed |-> {}]
  /\ UNCHANGED <<vs_vars, f_vars, k_vars, y_vars>>

\* whether peer p has an active pfx-peer in the engine state r
RtHasActive(r, p) == \E q \in DOMAIN r.pp[p] : r.pp[p][q].active

\* RIB (begin): an under-construction RIB is opened if none is open
RtRibBegin ==
  \E e \in RtElems :
    /\ RtTakes(e, "rib_begin")
    /\ rt' = IF rt.uc_rib_start[e.p] # 0 THEN rt
             ELSE [rt EXCEPT !.uc_rib_start[e.p] = e.ts,
                             !.uc_rib_end[e.p] = e.ts]

\* RIB entry of the open under-construction RIB
RtRibEntry ==
  \E e \in RtElems :
    /\ RtTakes(e, "rib_entry")
    /\ rt.uc_rib_start[e.p] # 0
    /\ rt' = [rt EXCEPT
         !.pp[e.p][e.q] =
           [@ EXCEPT !.present = TRUE, !.uc_as_path_id = e.path,
                     !.pfx_status =
                       pfx_status_put(@, RT_UC_ANNOUNCED_PFXSTATUS, TRUE),
                     !.bgp_time_last_ts = e.ts],
         !.uc_rib_end[e.p] = IF e.ts > @ THEN e.ts ELSE @]

\* the end of the RIB dump: the end of valid RIB is due at interval_end
RtRibEnd ==
  \E e \in RtElems :
    /\ RtTakes(e, "rib_end")
    /\ rt' = [rt EXCEPT !.eovrib_flag = TRUE]

\* whether ts lies in the window of the open under-construction RIB of p
RtInUc(r, p, ts) ==
  r.uc_rib_start[p] # 0 /\ r.uc_rib_start[p] <= ts /\ ts <= r.uc_rib_end[p]

\* ANNOUNCE: dropped unless the peer is ESTABLISHED; recorded in the open
\* under-construction RIB when inside its window (an entry of that RIB which
\* is as new or newer stays); otherwise applied to the view unless stale
RtAnnounce ==
  \E e \in RtElems :
    /\ RtTakes(e, "announce")
    /\ LET info == rt.pp[e.p][e.q]
       IN rt' =
            IF rt.fsm[e.p] # "ESTABLISHED" THEN rt
            ELSE IF RtInUc(rt, e.p, e.ts)
            THEN IF /\ pfx_status_has(info.pfx_status, RT_UC_ANNOUNCED_PFXSTATUS)
                    /\ info.bgp_time_last_ts >= e.ts
                 THEN rt
                 ELSE [rt EXCEPT !.pp[e.p][e.q] =
                         [@ EXCEPT !.present = TRUE, !.uc_as_path_id = e.path,
                                   !.pfx_status = pfx_status_put(@,
                                      RT_UC_ANNOUNCED_PFXSTATUS, TRUE),
                                   !.bgp_time_last_ts = e.ts]]
            ELSE IF update_is_stale(e.ts, rt.ref_rib_start[e.p]) THEN rt
            ELSE [rt EXCEPT !.pp[e.p][e.q] =
                    [@ EXCEPT !.present = TRUE, !.active = TRUE,
                              !.path = e.path,
                              !.pfx_status = pfx_status_put(@,
                                 RT_ANNOUNCED_PFXSTATUS, TRUE),
                              !.bgp_time_last_ts = e.ts],
                  !.active[e.p] = TRUE,
                  !.fsm[e.p] = fsm_after_activation(@)]

\* WITHDRAWAL: dropped unless the peer is ESTABLISHED; inside the window of
\* the open under-construction RIB UC_ANNOUNCED is cleared; unless stale the
\* pfx-peer is deactivated and stays in the view
RtWithdrawal ==
  \E e \in RtElems :
    /\ RtTakes(e, "withdrawal")
    /\ LET in_uc == RtInUc(rt, e.p, e.ts)
           live == ~update_is_stale(e.ts, rt.ref_rib_start[e.p])
           r1 == [rt EXCEPT !.pp[e.p][e.q] =
                    [@ EXCEPT
                       !.pfx_status =
                         pfx_status_put(
                           pfx_status_put(@, RT_UC_ANNOUNCED_PFXSTATUS,
                              ~in_uc /\ pfx_status_has(@,
                                           RT_UC_ANNOUNCED_PFXSTATUS)),
                           RT_ANNOUNCED_PFXSTATUS,
                           ~live /\ pfx_status_has(@, RT_ANNOUNCED_PFXSTATUS)),
                       !.active = ~live /\ @,
                       !.bgp_time_last_ts = e.ts]]
       IN rt' =
            IF rt.fsm[e.p] # "ESTABLISHED" \/ ~rt.pp[e.p][e.q].present
               \/ (~in_uc /\ ~live)
            THEN rt
            ELSE [r1 EXCEPT !.active[e.p] = RtHasActive(r1, e.p)]

\* STATE: the peer's state is updated; leaving ESTABLISHED deactivates the
\* peer and all its pfx-peers and starts a new reference time
RtState ==
  \E e \in RtElems :
    /\ RtTakes(e, "state")
    /\ rt' =
         IF rt.fsm[e.p] = "ESTABLISHED" /\ e.fsm # "ESTABLISHED"
         THEN [rt EXCEPT
                 !.fsm[e.p] = e.fsm,
                 !.active[e.p] = FALSE,
                 !.ref_rib_start[e.p] = e.ts,
                 !.pp[e.p] =
                   [q \in DOMAIN @ |->
                      [@[q] EXCEPT !.active = FALSE,
                                   !.pfx_status = pfx_status_put(@,
                                      RT_ANNOUNCED_PFXSTATUS, FALSE)]]]
         ELSE [rt EXCEPT !.fsm[e.p] = e.fsm]

\* the end-of-valid-RIB operations: for every peer with an open
\* under-construction RIB, its routes become the active ones, the routes that
\* were active and are not in it are deactivated, and its times become those
\* of the reference RIB
end_of_valid_rib(r) ==
  LET open(p) == r.uc_rib_start[p] # 0
      promoted(info) ==
        IF pfx_status_has(info.pfx_status, RT_UC_ANNOUNCED_PFXSTATUS)
        THEN [info EXCEPT
                !.active = TRUE, !.path = info.uc_as_path_id,
                !.pfx_status =
                  pfx_status_put(
                    pfx_status_put(@, RT_UC_ANNOUNCED_PFXSTATUS, FALSE),
                    RT_ANNOUNCED_PFXSTATUS, TRUE)]
        ELSE [info EXCEPT
                !.active = FALSE,
                !.pfx_status = pfx_status_put(@, RT_ANNOUNCED_PFXSTATUS, FALSE)]
      r1 == [r EXCEPT
               !.pp = [p \in DOMAIN @ |->
                         IF open(p)
                         THEN [q \in DOMAIN @[p] |-> promoted(@[p][q])]
                         ELSE @[p]],
               !.ref_rib_start = [p \in DOMAIN @ |->
                                    IF open(p) THEN r.uc_rib_start[p] ELSE @[p]],
               !.ref_rib_end = [p \in DOMAIN @ |->
                                  IF open(p) THEN r.uc_rib_end[p] ELSE @[p]],
               !.uc_rib_start = [p \in DOMAIN @ |-> 0],
               !.uc_rib_end = [p \in DOMAIN @ |-> 0],
               !.eovrib_flag = FALSE]
  IN [r1 EXCEPT
        !.active = [p \in DOMAIN @ |->
                      IF open(p) THEN RtHasActive(r1, p) ELSE @[p]],
        !.fsm = [p \in DOMAIN @ |->
                   IF open(p) /\ RtHasActive(r1, p)
                   THEN fsm_after_activation(@[p]) ELSE @[p]]]

\* mutant: information last seen that long ago is removed, active or not
remove_deprecated_active_too(r, ts) ==
  [r EXCEPT
     !.pp = [p \in DOMAIN @ |->
               [q \in DOMAIN @[p] |->
                  IF /\ @[p][q].present
                     /\ @[p][q].bgp_time_last_ts
                          < ts - RT_DEPRECATED_INFO_INTERVAL
                  THEN RtNoInfo ELSE @[p][q]]]]

\* the information that is inactive and was last seen more than
\* RT_DEPRECATED_INFO_INTERVAL before ts is removed
remove_deprecated(r, ts) ==
  [r EXCEPT
     !.pp = [p \in DOMAIN @ |->
               [q \in DOMAIN @[p] |->
                  IF /\ @[p][q].present
                     /\ ~@[p][q].active
                     /\ @[p][q].bgp_time_last_ts
                          < ts - RT_DEPRECATED_INFO_INTERVAL
                  THEN RtNoInfo ELSE @[p][q]]]]

\* the engine state at interval_end after the end-of-valid-RIB operations,
\* when they are due, and before the removal of deprecated information
RtPromoted(r) == IF r.eovrib_flag THEN end_of_valid_rib(r) ELSE r

\* interval_end: the end-of-valid-RIB operations when they are due, then
\* the removal of deprecated information; the view is not reset. rt_ev
\* also tells which (peer, prefix) information was removed.
RtIntervalEnd ==
  \E e \in RtElems :
    /\ rt_ev.n < MaxElems
    /\ e.kind = "interval_end"
    /\ rt' = remove_deprecated(RtPromoted(rt), e.ts)
    /\ rt_ev' = [n |-> rt_ev.n + 1, e |-> e,
                 removed |-> {pq \in (DOMAIN rt.pp) \X (1..2) :
                                /\ RtPromoted(rt).pp[pq[1]][pq[2]].present
                                /\ ~rt'.pp[pq[1]][pq[2]].present}]
    /\ UNCHANGED <<vs_vars, f_vars, k_vars, y_vars>>

\* no element has been handled
RtIdle ==
  /\ rt = RtStart
  /\ rt_ev = [n |-> 0, e |-> [kind |-> "none"], removed |-> {}]


(***************************************************************************)
(* Kafka client (lib/io/kafka/bgpview_io_kafka.c): the error callback, the *)
(* topic names, the connection attempts of start and the drain loop of     *)
(* destroy. Strings are sequences of characters.                           *)
(***************************************************************************)
BGPVIEW_IO_KAFKA_CONNECT_MAX_RETRIES == 5

\* error callbacks, and messages left in the queue when destroy is called
MaxErrs == 2
MaxOutq == 1

\* calls of bgpview_io_kafka_single_topic_connect from outside start
MaxConnects == 2

\* a char * that is NULL, and one that points to the characters s
NullStr == [null |-> TRUE]
Str(s) == [null |-> FALSE, s |-> s]

\* bgpview_io_kafka_topic_id_t, in the order of names[]
TopicIds == <<"PFXS", "PEERS", "META", "MEMBERS", "GLOBALMETA">>

\* names[id]
names ==
  [PFXS |-> <<"p", "f", "x", "s">>,
   PEERS |-> <<"p", "e", "e", "r", "s">>,
   META |-> <<"m", "e", "t", "a">>,
   MEMBERS |-> <<"m", "e", "m", "b", "e", "r", "s">>,
   GLOBALMETA |-> <<"g", "l", "o", "b", "a", "l", "m", "e", "t", "a">>]

\* snprintf(buf, size, ...) of the characters s: buf holds at most size - 1
\* of them, and the length of s is returned
snprintf(size, s) ==
  [ret |-> Len(s),
   buf |-> SubSeq(s, 1, IF Len(s) < size THEN Len(s) ELSE size - 1)]

\* the formats "%s.%s" and "%s.%s.%s"
Dot2(a, b) == a \o <<".">> \o b
Dot3(a, b, c) == a \o <<".">> \o b \o <<".">> \o c

\* mutant: the callback without the fall through of the fatal errors
kafka_error_callback_no_fall_through(client, err) ==
  IF err \in {"BAD_COMPRESSION", "RESOLVE"}
  THEN [client EXCEPT !.fatal_error = 1]
  ELSE IF err \in {"DESTROY", "FAIL", "TRANSPORT", "ALL_BROKERS_DOWN"}
  THEN [client EXCEPT !.connected = 0]
  ELSE client

\* kafka_error_callback for the error RD_KAFKA_RESP_ERR__<err>
kafka_error_callback(client, err) ==
  LET c1 == IF err \in {"BAD_COMPRESSION", "RESOLVE"}
            THEN [client EXCEPT !.fatal_error = 1]
            ELSE client
  IN IF err \in {"BAD_COMPRESSION", "RESOLVE", "DESTROY", "FAIL",
                 "TRANSPORT", "ALL_BROKERS_DOWN"}
     THEN [c1 EXCEPT !.connected = 0]
     ELSE c1

\* the name bgpview_io_kafka_single_topic_connect builds for topic id, as
\* snprintf returns it
topic_name(client, identity, id) ==
  IF \/ id = "MEMBERS"
     \/ id = "META"
     \/ (id = "GLOBALMETA" /\ client.channel = NullStr)
  THEN snprintf(client.max_len, Dot2(client.namespace.s, names[id]))
  ELSE IF id = "GLOBALMETA"
  THEN snprintf(client.max_len,
                Dot3(client.namespace.s, names[id], client.channel.s))
  ELSE snprintf(client.max_len,
                Dot3(client.namespace.s, identity.s, names[id]))

\* bgpview_io_kafka_single_topic_connect: the name is built, and the topic
\* is connected if it is not yet; connects tells whether the mode's topic
\* connect function succeeds
bgpview_io_kafka_single_topic_connect(client, identity, id, connects) ==
  LET n == topic_name(client, identity, id)
      c1 == [client EXCEPT !.topics[id].name = n.buf]
  IN IF n.ret >= client.max_len THEN [ret |-> -1, client |-> c1]
     ELSE IF ~client.topics[id].rkt
     THEN IF connects
          THEN [ret |-> 0, client |-> [c1 EXCEPT !.topics[id].rkt = TRUE]]
          ELSE [ret |-> -1, client |-> c1]
     ELSE [ret |-> 0, client |-> c1]

\* mutant: a producer skips its members topic too
topic_skipped_members(mode, id) ==
  \/ mode = "PRODUCER" /\ id \in {"MEMBERS", "GLOBALMETA"}
  \/ mode = "DIRECT_CONSUMER" /\ id \in {"MEMBERS", "GLOBALMETA"}
  \/ mode = "GLOBAL_CONSUMER" /\ id # "GLOBALMETA"

\* whether kafka_topic_connect skips topic id in the client's mode
topic_skipped(mode, id) ==
  \/ mode = "PRODUCER" /\ id = "GLOBALMETA"
  \/ mode = "DIRECT_CONSUMER" /\ id \in {"MEMBERS", "GLOBALMETA"}
  \/ mode = "GLOBAL_CONSUMER" /\ id # "GLOBALMETA"

\* kafka_topic_connect from topic i on; fails is the topic whose connect
\* function fails, if any
RECURSIVE kafka_topic_connect_from(_, _, _)
kafka_topic_connect_from(client, i, fails) ==
  IF i > Len(TopicIds) THEN [ret |-> 0, client |-> client]
  ELSE IF topic_skipped(client.mode, TopicIds[i])
  THEN kafka_topic_connect_from(client, i + 1, fails)
  ELSE LET r == bgpview_io_kafka_single_topic_connect(
                  client, client.identity, TopicIds[i], TopicIds[i] # fails)
       IN IF r.ret # 0 THEN [ret |-> -1, client |-> r.client]
          ELSE kafka_topic_connect_from(r.client, i + 1, fails)

kafka_topic_connect(client, fails) ==
  kafka_topic_connect_from(client, 1, fails)

\* mutant: the wait stays what it is
next_wait_same(wait) == wait

\* bgpview_io_kafka_start: wait *= 2, at most 180
next_wait(wait) == IF wait * 2 > 180 THEN 180 ELSE wait * 2

\* mutant: the drain loop goes on while polls are left
drain_goes_on_any_queue(outq_len, drain_wait_cnt) == drain_wait_cnt > 0

\* bgpview_io_kafka_destroy: the condition of the drain loop
drain_goes_on(outq_len, drain_wait_cnt) ==
  outq_len > 0 /\ drain_wait_cnt > 0

\* the client bgpview_io_kafka_init returns for a mode (AUTO_CONSUMER
\* resolved), an identity, a channel and the build's IDENTITY_MAX_LEN
KafkaClient(mode, identity, channel, max_len) ==
  [mode |-> mode, identity |-> identity, namespace |-> Str(<<"b", "v">>),
   channel |-> channel, connected |-> 0, fatal_error |-> 0,
   rdk_conn |-> FALSE, outq |-> 0,
   topics |-> [id \in {TopicIds[i] : i \in DOMAIN TopicIds} |->
                 [name |-> <<>>, rkt |-> FALSE]],
   max_len |-> max_len, freed |-> FALSE]

\* no call is in progress
KafkaNoCall == [pc |-> "idle", wait |-> 0, connect_retries |-> 0,
                drain_wait_cnt |-> 0]

\* nothing has been called
KafkaNoLog ==
  [errs |-> 0, starts |-> 0, connects |-> 0, attempts |-> 0, sleeps |-> <<>>, polls |-> <<>>,
   last |-> [call |-> "none"]]

\* the log when a new call begins: the counts of the calls stay, what is
\* told about the call before is forgotten
KafkaLogFor(call) ==
  [k_log EXCEPT !.attempts = 0, !.sleeps = <<>>, !.polls = <<>>,
                !.last = call]

\* no Kafka client is used
KafkaIdle ==
  /\ k_client = KafkaClient("PRODUCER", Str(<<"r", "0">>), NullStr, 64)
  /\ k_call = KafkaNoCall
  /\ k_log = KafkaNoLog

\* rdkafka calls the error callback when the client polls between two
\* calls of start and destroy
KafkaErrorCallback ==
  \E err \in {"BAD_COMPRESSION", "RESOLVE", "DESTROY", "FAIL", "TRANSPORT",
              "ALL_BROKERS_DOWN", "TIMED_OUT", "MSG_TIMED_OUT"} :
    /\ k_call.pc = "idle"
    /\ k_client.rdk_conn /\ ~k_client.freed
    /\ k_log.errs < MaxErrs
    /\ k_client' = kafka_error_callback(k_client, err)
    /\ k_log' = [KafkaLogFor([call |-> "error_callback", err |-> err])
                   EXCEPT !.errs = @ + 1]
    /\ UNCHANGED <<k_call, vs_vars, f_vars, rt_vars, y_vars>>

\* a call of bgpview_io_kafka_single_topic_connect, by kafka_topic_connect
\* or by the consumer for the topics of a member
KafkaSingleTopicConnect ==
  \E i \in DOMAIN TopicIds, connects \in BOOLEAN,
     identity \in {Str(<<"r", "0">>), Str(<<"r", "1">>)} :
    /\ k_call.pc = "idle"
    /\ ~k_client.freed
    /\ k_log.connects < MaxConnects
    /\ LET r == bgpview_io_kafka_single_topic_connect(
                  k_client, identity, TopicIds[i], connects)
       IN /\ k_client' = r.client
          /\ k_log' = [KafkaLogFor([call |-> "single_topic_connect",
                                     identity |-> identity,
                                     id |-> TopicIds[i], ret |-> r.ret])
                         EXCEPT !.connects = @ + 1]
    /\ UNCHANGED <<k_call, vs_vars, f_vars, rt_vars, y_vars>>

\* bgpview_io_kafka_start is called, once for a client
KafkaStart ==
  /\ k_call.pc = "idle"
  /\ ~k_client.freed
  /\ k_log.starts = 0
  /\ k_call' = [k_call EXCEPT
                  !.pc = "start_loop", !.wait = 10,
                  !.connect_retries = BGPVIEW_IO_KAFKA_CONNECT_MAX_RETRIES]
  /\ k_log' = [KafkaLogFor([call |-> "start"]) EXCEPT !.starts = @ + 1]
  /\ UNCHANGED <<k_client, vs_vars, f_vars, rt_vars, y_vars>>

\* start: one more attempt to connect; the connect function of the mode
\* fails, or returns with the client connected or not
KafkaStartAttempt ==
  \E o \in {"fails", "connected", "not connected"} :
    /\ k_call.pc = "start_loop"
    /\ k_client.connected = 0 /\ k_call.connect_retries > 0
    /\ k_log' = [k_log EXCEPT
                   !.attempts = @ + 1,
                   !.last = IF o = "fails"
                            THEN [call |-> "start", ret |-> -1,
                                  gave_up |-> FALSE, members |-> FALSE]
                            ELSE @]
    /\ IF o = "fails"
       THEN /\ k_call' = KafkaNoCall
            /\ k_client' = k_client
       ELSE /\ k_client' = [k_client EXCEPT !.rdk_conn = TRUE,
                              !.connected = IF o = "connected" THEN 1 ELSE 0]
            /\ k_call' = [k_call EXCEPT
                            !.connect_retries = @ - 1,
                            !.pc = IF /\ o # "connected"
                                      /\ k_call.connect_retries - 1 > 0
                                   THEN "start_sleep" ELSE "start_loop"]
    /\ UNCHANGED <<vs_vars, f_vars, rt_vars, y_vars>>

\* start: sleep(wait) between two attempts
KafkaStartSleep ==
  /\ k_call.pc = "start_sleep"
  /\ k_call' = [k_call EXCEPT !.pc = "start_loop", !.wait = next_wait(@)]
  /\ k_log' = [k_log EXCEPT !.sleeps = Append(@, k_call.wait)]
  /\ UNCHANGED <<k_client, vs_vars, f_vars, rt_vars, y_vars>>

\* whether start, on its way to return ret after kafka_topic_connect,
\* calls bgpview_io_kafka_producer_send_members_update (with tv_sec; the
\* value the call returns is not looked at)
members_update_called(mode, ret) == mode = "PRODUCER" /\ ret = 0

\* start after its loop: it gives up if the client is not connected, and
\* connects the topics otherwise; a producer then sends its members update
KafkaStartFinish ==
  \E fails \in {"none"} \cup {TopicIds[i] : i \in DOMAIN TopicIds} :
    /\ k_call.pc = "start_loop"
    /\ ~(k_client.connected = 0 /\ k_call.connect_retries > 0)
    /\ \/ /\ k_client.connected = 0
          /\ fails = "none"
          /\ k_client' = k_client
          /\ k_log' = [k_log EXCEPT !.last = [call |-> "start", ret |-> -1,
                                              gave_up |-> TRUE,
                                              members |-> FALSE]]
       \/ /\ k_client.connected # 0
          /\ LET r == kafka_topic_connect(k_client, fails)
             IN /\ k_client' = r.client
                /\ k_log' = [k_log EXCEPT
                               !.last = [call |-> "start", ret |-> r.ret,
                                         gave_up |-> FALSE,
                                         members |->
                                           members_update_called(
                                             k_client.mode, r.ret)]]
    /\ k_call' = KafkaNoCall
    /\ UNCHANGED <<vs_vars, f_vars, rt_vars, y_vars>>

\* bgpview_io_kafka_destroy is called for a client; if it is connected to
\* rdkafka, messages may be left in its queue
KafkaDestroy ==
  \E left \in 0..MaxOutq :
    /\ k_call.pc = "idle"
    /\ ~k_client.freed
    /\ IF k_client.rdk_conn
       THEN /\ k_client' = [k_client EXCEPT !.outq = left]
            /\ k_call' = [k_call EXCEPT !.pc = "drain",
                                        !.drain_wait_cnt = 12]
       ELSE /\ left = 0
            /\ k_client' = k_client
            /\ k_call' = [k_call EXCEPT !.pc = "release"]
    /\ k_log' = KafkaLogFor([call |-> "destroy"])
    /\ UNCHANGED <<vs_vars, f_vars, rt_vars, y_vars>>

\* destroy: rd_kafka_poll(5000) in the drain loop; the poll may deliver
\* messages of the queue. k_log tells the length of the queue before it.
KafkaDrainPoll ==
  \E left \in 0..MaxOutq :
    /\ k_call.pc = "drain"
    /\ drain_goes_on(k_client.outq, k_call.drain_wait_cnt)
    /\ left <= k_client.outq
    /\ k_client' = [k_client EXCEPT !.outq = left]
    /\ k_call' = [k_call EXCEPT !.drain_wait_cnt = @ - 1]
    /\ k_log' = [k_log EXCEPT !.polls = Append(@, k_client.outq)]
    /\ UNCHANGED <<vs_vars, f_vars, rt_vars, y_vars>>

\* destroy after the drain loop: the strings, the topics, the rdkafka
\* handle and the client are released
KafkaRelease ==
  /\ \/ k_call.pc = "release"
     \/ /\ k_call.pc = "drain"
        /\ ~drain_goes_on(k_client.outq, k_call.drain_wait_cnt)
  /\ k_client' = [k_client EXCEPT
             !.identity = NullStr, !.namespace = NullStr,
             !.channel = NullStr,
             !.topics = [id \in DOMAIN @ |-> [@[id] EXCEPT !.rkt = FALSE]],
             !.rdk_conn = FALSE, !.freed = TRUE]
  /\ k_call' = [k_call EXCEPT !.pc = "idle"]
  /\ k_log' = [k_log EXCEPT !.last = [call |-> "destroy", done |-> TRUE]]
  /\ UNCHANGED <<vs_vars, f_vars, rt_vars, y_vars>>


(***************************************************************************)
(* Kafka client: the worker threads of the global consumer's topics        *)
(*                                                                         *)
(* free_gc_topics is in lib/io/kafka/bgpview_io_kafka.c.  The worker       *)
(* thread and the code that hands it a job are in the consumer's source,   *)
(* which is not part of the sources at hand: they follow the description   *)
(* "Workers synchronize via a mutex + condition-variable pair protecting   *)
(* {state: IDLE|RUNNING|SHUTDOWN, job}".                                   *)
(***************************************************************************)

\* how many gc_topics_t the client holds, and how many jobs each is given
MaxGc == 2
MaxJobs == 2

GcIds == 1 .. MaxGc

\* gc_topics_t after its worker was created: the shutdown flag, the job
\* state, the owner of the mutex, where the worker thread is, the number of
\* jobs handed over, and whether free_gc_topics has released it
GcStart ==
  [shutdown |-> 0, job |-> "idle", mutex |-> "free", wpc |-> "start",
   jobs |-> 0, freed |-> FALSE]

\* pthread_cond_signal(&gct->job_state_cond): a thread blocked on the
\* condition is woken; with no thread blocked, the signal is lost
cond_signal(g) ==
  IF g.wpc = "blocked" THEN [g EXCEPT !.wpc = "woken"] ELSE g

\* free_gc_topics, line by line: the flag is set and the condition is
\* signalled without the mutex; pthread_join returns when the worker has
\* exited, and the state is then released
free_gc_topics(g, at) ==
  CASE at = "set" -> [g EXCEPT !.shutdown = 1]
    [] at = "signal" -> cond_signal(g)
    [] at = "join" -> [g EXCEPT !.freed = TRUE]

\* the worker thread, step by step; seen is the value its read of the
\* shutdown flag returns.  With the mutex held it leaves on shutdown, takes
\* the job that was assigned, or decides to wait; pthread_cond_wait
\* releases the mutex and blocks in one step; a woken worker takes the
\* mutex again and looks again.
thread_worker(g, seen) ==
  CASE g.wpc \in {"start", "woken"} ->
         [g EXCEPT !.mutex = "worker", !.wpc = "check"]
    [] g.wpc = "check" ->
         IF seen = 1
         THEN [g EXCEPT !.mutex = "free", !.wpc = "exited"]
         ELSE IF g.job = "assigned"
         THEN [g EXCEPT !.mutex = "free", !.job = "running",
                        !.wpc = "running"]
         ELSE [g EXCEPT !.wpc = "wait"]
    [] g.wpc = "wait" -> [g EXCEPT !.mutex = "free", !.wpc = "blocked"]
    [] g.wpc = "running" -> [g EXCEPT !.wpc = "ran"]
    [] g.wpc = "ran" ->
         [g EXCEPT !.mutex = "worker", !.job = "complete", !.wpc = "check"]

\* the main thread holds no call of free_gc_topics
GcNoCall == [pc |-> "run", i |-> 0]

\* no global consumer holds topics
GcIdle ==
  /\ gc = [i \in GcIds |-> GcStart]
  /\ gc_main = GcNoCall

\* the values a read of gct->shutdown by the worker can return: the flag is
\* written without the mutex, so until pthread_cond_signal has synchronized
\* memory the worker can still read the value from before the write
shutdown_seen(i) ==
  IF gc_main.pc = "signal" /\ gc_main.i = i THEN {0, 1} ELSE {gc[i].shutdown}

\* one step of the worker of gc[i]; taking the mutex waits until it is free
GcWorker(i) ==
  /\ ~gc[i].freed
  /\ gc[i].wpc \in {"start", "woken", "check", "wait", "running", "ran"}
  /\ gc[i].wpc \in {"start", "woken", "ran"} => gc[i].mutex = "free"
  /\ \E seen \in shutdown_seen(i) :
       gc' = [gc EXCEPT ![i] = thread_worker(gc[i], seen)]
  /\ UNCHANGED <<gc_main, gc_others>>

\* the main thread hands a job to the worker of gc[i]: with the mutex
\* held, the job is assigned and job_state_cond is signalled
GcAssignJob(i) ==
  /\ gc_main.pc = "run"
  /\ ~gc[i].freed /\ gc[i].shutdown = 0
  /\ gc[i].mutex = "free"
  /\ gc[i].job = "idle"
  /\ gc[i].jobs < MaxJobs
  /\ gc' = [gc EXCEPT ![i] =
              cond_signal([gc[i] EXCEPT !.job = "assigned",
                                        !.jobs = @ + 1])]
  /\ UNCHANGED <<gc_main, gc_others>>

\* the main thread takes the result of the job of gc[i]
GcCollectJob(i) ==
  /\ gc_main.pc = "run"
  /\ ~gc[i].freed
  /\ gc[i].mutex = "free"
  /\ gc[i].job = "complete"
  /\ gc' = [gc EXCEPT ![i].job = "idle"]
  /\ UNCHANGED <<gc_main, gc_others>>

\* bgpview_io_kafka_destroy frees the topics one after the other:
\* free_gc_topics(gc[i]) is called
GcFreeCall(i) ==
  /\ gc_main.pc = "run"
  /\ ~gc[i].freed
  /\ gc_main' = [pc |-> "set", i |-> i]
  /\ UNCHANGED <<gc, gc_others>>

\* free_gc_topics: gct->shutdown = 1
GcFreeSet ==
  /\ gc_main.pc = "set"
  /\ gc' = [gc EXCEPT ![gc_main.i] = free_gc_topics(@, "set")]
  /\ gc_main' = [gc_main EXCEPT !.pc = "signal"]
  /\ UNCHANGED gc_others

\* free_gc_topics: pthread_cond_signal(&gct->job_state_cond)
GcFreeSignal ==
  /\ gc_main.pc = "signal"
  /\ gc' = [gc EXCEPT ![gc_main.i] = free_gc_topics(@, "signal")]
  /\ gc_main' = [gc_main EXCEPT !.pc = "join"]
  /\ UNCHANGED gc_others

\* free_gc_topics: pthread_join returns once the worker has exited; the
\* mutex, the conditions, the idmap and the topics are then released
GcFreeJoin ==
  /\ gc_main.pc = "join"
  /\ gc[gc_main.i].wpc = "exited"
  /\ gc' = [gc EXCEPT ![gc_main.i] = free_gc_topics(@, "join")]
  /\ gc_main' = GcNoCall
  /\ UNCHANGED gc_others

(***************************************************************************)
(* The archiver consumer (lib/consumers/bvc_archiver.c)                    *)
(***************************************************************************)

\* the rotation intervals given with -r (0: no rotation)
RotationIntervals == {0, 3}

Digits == <<"0", "1", "2", "3", "4", "5", "6", "7", "8", "9">>

\* snprintf(secs, sizeof(secs), "%" PRIu32, time): the decimal digits
RECURSIVE Decimal(_)
Decimal(n) ==
  IF n < 10 THEN <<Digits[n + 1]>>
  ELSE Decimal(n \div 10) \o <<Digits[(n % 10) + 1]>>

\* generate_file_name: each "%s" of the template becomes the time in
\* decimal; the other characters are copied (the templates of the model
\* hold no other conversion for strftime to replace)
RECURSIVE generate_file_name_from(_, _, _)
generate_file_name_from(template, i, time) ==
  IF i > Len(template) THEN <<>>
  ELSE IF template[i] = "%" /\ i < Len(template) /\ template[i + 1] = "s"
  THEN Decimal(time) \o generate_file_name_from(template, i + 2, time)
  ELSE <<template[i]>> \o generate_file_name_from(template, i + 1, time)

generate_file_name(template, time) ==
  generate_file_name_from(template, 1, time)

\* the templates given with -f
ArPatterns == {<<"v", "%", "s">>, <<"v">>, <<"-">>}

\* SHOULD_ROTATE(state, time)
SHOULD_ROTATE(state, time) ==
  state.rotation_interval > 0 /\ time >= state.next_rotate_time

\* bvc_archiver_init: malloc_zero, the defaults, parse_args; no rotation
\* when writing to stdout.  outfile is the name the open output file was
\* created with (NullStr = NULL); latest_filename is whether -l was given.
bvc_archiver_init(pattern, format, latest, interval, noalign) ==
  [outfile_pattern |-> pattern,
   outfile_name |-> NullStr,
   outfile |-> NullStr,
   output_format |-> format,
   latest_filename |-> latest,
   rotation_interval |-> IF pattern = <<"-">> THEN 0 ELSE interval,
   rotate_noalign |-> noalign,
   next_rotate_time |-> 0,
   freed |-> FALSE]

\* wandio_wcreate(latest), wandio_printf and wandio_wdestroy before the
\* output file is closed
complete_file_latest_first(state, latest_ok) ==
  IF state.outfile = NullStr THEN [state |-> state, ret |-> 0, ops |-> <<>>]
  ELSE IF ~state.latest_filename
  THEN [state |-> [state EXCEPT !.outfile = NullStr], ret |-> 0,
        ops |-> <<[op |-> "close", name |-> state.outfile.s]>>]
  ELSE [state |-> [state EXCEPT !.outfile = NullStr,
                                !.outfile_name = NullStr],
        ret |-> 0,
        ops |-> <<[op |-> "latest", name |-> state.outfile_name.s],
                  [op |-> "close", name |-> state.outfile.s]>>]

\* complete_file: the state after the call, its return value and the
\* operations on files it made, in order; latest_ok is whether
\* wandio_wcreate of the latest file succeeds
complete_file(state, latest_ok) ==
  IF state.outfile = NullStr THEN [state |-> state, ret |-> 0, ops |-> <<>>]
  ELSE
    LET closed == [state EXCEPT !.outfile = NullStr]
        close == [op |-> "close", name |-> state.outfile.s]
    IN  IF ~state.latest_filename
        THEN [state |-> closed, ret |-> 0, ops |-> <<close>>]
        ELSE IF ~latest_ok
        THEN [state |-> closed, ret |-> -1, ops |-> <<close>>]
        ELSE [state |-> [closed EXCEPT !.outfile_name = NullStr],
              ret |-> 0,
              ops |-> <<close,
                        [op |-> "latest",
                         name |-> state.outfile_name.s]>>]

\* what a call reports of complete_file: whether it called it, and the
\* value returned
ArNotCompleted == [called |-> FALSE, ret |-> 0]
ArCompleted(done) == [called |-> TRUE, ret |-> done.ret]

\* bvc_archiver_process_view for a view of time view_time: the state after
\* the call, its return value, what complete_file returned, and the
\* operations on files, in order.  io says which of wandio_wcreate(latest),
\* wandio_wcreate(outfile) and the write of the view succeed.
bvc_archiver_process_view(state, view_time, io) ==
  LET I == state.rotation_interval
      turn == state.outfile = NullStr \/ SHOULD_ROTATE(state, view_time)
      rotate == turn /\ I > 0 /\ state.outfile # NullStr
      done == IF rotate THEN complete_file(state, io.latest)
              ELSE [state |-> state, ret |-> 0, ops |-> <<>>]
      completed == IF rotate THEN ArCompleted(done) ELSE ArNotCompleted
      file_time == IF I > 0 /\ state.rotate_noalign = 0
                   THEN (view_time \div I) * I
                   ELSE view_time
      timed == IF I > 0
               THEN [done.state EXCEPT
                       !.next_rotate_time = (file_time + I) % TimeLimit]
               ELSE done.state
      name == generate_file_name(state.outfile_pattern, file_time)
      named == [timed EXCEPT !.outfile_name = Str(name)]
      opened == [named EXCEPT !.outfile = Str(name)]
      write == [op |-> IF state.output_format = "ASCII" THEN "print"
                       ELSE "write",
                time |-> view_time]
  IN  IF ~turn
      THEN IF io.write
           THEN [state |-> state, ret |-> 0, completed |-> ArNotCompleted,
                 ops |-> <<write @@ [name |-> state.outfile.s]>>]
           ELSE [state |-> state, ret |-> -1, completed |-> ArNotCompleted,
                 ops |-> <<>>]
      ELSE IF done.ret # 0
      THEN [state |-> done.state, ret |-> -1, completed |-> completed,
            ops |-> done.ops]
      ELSE IF ~io.outfile
      THEN [state |-> named, ret |-> -1, completed |-> completed,
            ops |-> done.ops]
      ELSE IF ~io.write
      THEN [state |-> opened, ret |-> -1, completed |-> completed,
            ops |-> done.ops \o <<[op |-> "open", name |-> name]>>]
      ELSE [state |-> opened, ret |-> 0, completed |-> completed,
            ops |-> done.ops \o <<[op |-> "open", name |-> name],
                                  write @@ [name |-> name]>>]

\* bvc_archiver_destroy: complete_file, then the state is freed
bvc_archiver_destroy(state, io) ==
  LET done == complete_file(state, io.latest)
  IN  [state |-> [done.state EXCEPT !.outfile_name = NullStr,
                                    !.freed = TRUE],
       ret |-> 0, completed |-> ArCompleted(done), ops |-> done.ops]

\* the outcomes of the calls of wandio: all succeed, or one of them fails
ArIo ==
  {io \in [latest : BOOLEAN, outfile : BOOLEAN, write : BOOLEAN] :
     Cardinality({f \in {"latest", "outfile", "write"} : ~io[f]}) <= 1}

\* no call was made yet: the last call, the time of the last view, the
\* results of the call, the time the open output file was named for, and
\* whether the view times were non-decreasing
ArNoCall ==
  [kind |-> "none", time |-> 0, ret |-> 0, completed |-> ArNotCompleted,
   ops |-> <<>>, file_time |-> 0, mono |-> TRUE]

\* the time the name of the file opened by a call was generated for
ArFileTime(before, view_time) ==
  IF before.rotation_interval > 0 /\ before.rotate_noalign = 0
  THEN (view_time \div before.rotation_interval) * before.rotation_interval
  ELSE view_time

ArLogFor(kind, before, view_time, r) ==
  [kind |-> kind, time |-> view_time, ret |-> r.ret,
   completed |-> r.completed, ops |-> r.ops,
   file_time |-> IF \E j \in DOMAIN r.ops : r.ops[j].op = "open"
                 THEN ArFileTime(before, view_time)
                 ELSE ar_ev.file_time,
   mono |-> ar_ev.mono /\ view_time >= ar_ev.time]

\* the consumer is given a view
ArProcessView ==
  /\ ~ar.freed
  /\ \E view_time \in 0 .. TimeLimit - 1, io \in ArIo :
       \E r \in {bvc_archiver_process_view(ar, view_time, io)} :
         /\ ar' = r.state
         /\ ar_ev' = ArLogFor("process_view", ar, view_time, r)
  /\ UNCHANGED ar_others

\* the consumer is destroyed
ArDestroy ==
  /\ ~ar.freed
  /\ \E io \in ArIo :
       \E r \in {bvc_archiver_destroy(ar, io)} :
         /\ ar' = r.state
         /\ ar_ev' = ArLogFor("destroy", ar, ar_ev.time, r)
  /\ UNCHANGED ar_others

\* no archiver is configured
ArIdle ==
  /\ ar = bvc_archiver_init(<<"v">>, "BINARY", FALSE, 0, 0)
  /\ ar_ev = ArNoCall

(***************************************************************************)
(* View-sender: its options, the full-feed filter and graphite_safe        *)
(* (lib/consumers/bvc_viewsender.c), and the copy of graphite_safe in the  *)
(* perfmonitor consumer (bvc_perfmonitor.c)                                *)
(***************************************************************************)

FILTER_FF_V4CNT_DEFAULT == 400000
FILTER_FF_V6CNT_DEFAULT == 10000

\* the longest instance name and peer address of the model
MaxNameLen == 2

\* the characters of the names: the two that graphite_safe replaces, the
\* two it replaces them with, and another one
NameChars == {".", "*", "_", "-", "a"}

Names == UNION {[1 .. n -> NameChars] : n \in 0 .. MaxNameLen}

\* mutant: only the dots are replaced
graphite_safe_dots_only(p) ==
  IF p = NullStr THEN p
  ELSE Str([i \in DOMAIN p.s |-> IF p.s[i] = "." THEN "_" ELSE p.s[i]])

\* graphite_safe of the view-sender: the string after the call (the
\* characters are replaced in place; NULL stays NULL)
graphite_safe(p) ==
  IF p = NullStr THEN p
  ELSE Str([i \in DOMAIN p.s |->
              LET c == IF p.s[i] = "." THEN "_" ELSE p.s[i]
              IN  IF c = "*" THEN "-" ELSE c])

\* graphite_safe of the perfmonitor consumer, character by character from
\* the first one
RECURSIVE perf_graphite_safe_from(_, _)
perf_graphite_safe_from(s, i) ==
  IF i > Len(s) THEN <<>>
  ELSE LET c == IF s[i] = "." THEN "_" ELSE s[i]
       IN  <<IF c = "*" THEN "-" ELSE c>> \o perf_graphite_safe_from(s, i + 1)

perf_graphite_safe(p) ==
  IF p = NullStr THEN p ELSE Str(perf_graphite_safe_from(p.s, 1))

\* the memory that holds the strings: address 1 is optarg (a string of
\* argv), 2 and 3 are what strdup allocates; the pointer 0 is NULL
SoAddrs == 1 .. 3

\* strdup without a copy: the pointer given is returned
strdup_alias(heap, p, ok) == [heap |-> heap, ptr |-> p]

\* strdup(p): a new string with the characters of p, or NULL
strdup(heap, p, ok) ==
  IF ~ok THEN [heap |-> heap, ptr |-> 0]
  ELSE LET a == CHOOSE a \in SoAddrs :
                  /\ heap[a] = NullStr
                  /\ \A b \in SoAddrs : heap[b] = NullStr => a <= b
       IN  [heap |-> [heap EXCEPT ![a] = heap[p]], ptr |-> a]

\* the string a pointer points to
SoDeref(heap, p) == IF p = 0 THEN NullStr ELSE heap[p]

\* bvc_viewsender_init up to parse_args: malloc_zero and the defaults of
\* the filter; argv is kept for the call of parse_args
SoStart(name, four, six) ==
  [argv |-> [four |-> four, six |-> six],
   heap |-> [a \in SoAddrs |-> IF a = 1 THEN Str(name) ELSE NullStr],
   instance |-> 0, gr_instance |-> 0,
   filter_ff_v4cnt |-> FILTER_FF_V4CNT_DEFAULT,
   filter_ff_v6cnt |-> FILTER_FF_V6CNT_DEFAULT,
   parsed |-> FALSE, ret |-> 0]

\* an option that was not given, and one given with a value
SoAbsent == [given |-> FALSE, val |-> 0]
SoGiven(v) == [given |-> TRUE, val |-> v]

\* parse_args of the view-sender with -n and -i, and -4 and -6 as argv has
\* them: atoi for the counts; two copies of the name, the second one made
\* graphite safe; -1 without an instance name
sender_parse_args(state, ok1, ok2) ==
  LET d1 == strdup(state.heap, 1, ok1)
      d2 == strdup(d1.heap, 1, ok2)
      heap == IF d2.ptr = 0 THEN d2.heap
              ELSE [d2.heap EXCEPT ![d2.ptr] = graphite_safe(@)]
  IN  [state EXCEPT
         !.filter_ff_v4cnt = IF state.argv.four.given
                             THEN state.argv.four.val ELSE @,
         !.filter_ff_v6cnt = IF state.argv.six.given
                             THEN state.argv.six.val ELSE @,
         !.heap = heap,
         !.instance = d1.ptr,
         !.gr_instance = d2.ptr,
         !.parsed = TRUE,
         !.ret = IF d1.ptr = 0 THEN -1 ELSE 0]

\* mutant: the IPv6 count is not looked at
filter_ff_v4_only(type, v4, v6, state) ==
  IF type = "PFX" \/ v4 >= state.filter_ff_v4cnt THEN 1 ELSE 0

\* filter_ff for an iterator on a peer with v4 active IPv4 prefixes and v6
\* active IPv6 prefixes
filter_ff(type, v4, v6, state) ==
  IF \/ type = "PFX"
     \/ v4 >= state.filter_ff_v4cnt
     \/ v6 >= state.filter_ff_v6cnt
  THEN 1 ELSE 0

\* bgpview_io_filter_type_t
FilterTypes == {"PEER", "PFX", "PFX_PEER"}

\* the prefix counts of the peers: around the values given with -4 and -6,
\* and around the defaults
PfxCnts ==
  {0, 1, 2, 3,
   FILTER_FF_V6CNT_DEFAULT - 1, FILTER_FF_V6CNT_DEFAULT,
   FILTER_FF_V4CNT_DEFAULT - 1, FILTER_FF_V4CNT_DEFAULT}

\* no call was made yet
SoNoCall == [kind |-> "none"]

\* bvc_viewsender_init calls parse_args
SoParseArgs ==
  /\ ~so.parsed
  /\ \E ok1 \in BOOLEAN, ok2 \in BOOLEAN :
       so' = sender_parse_args(so, ok1, ok2)
  /\ so_ev' = [kind |-> "parse_args"]
  /\ UNCHANGED so_others

\* send_view calls the filter for a peer, a prefix or a pfx-peer
SoFilterFf ==
  /\ so.parsed /\ so.ret = 0
  /\ \E type \in FilterTypes, v4 \in PfxCnts, v6 \in PfxCnts :
       so_ev' = [kind |-> "filter_ff", type |-> type, v4 |-> v4, v6 |-> v6,
                 ret |-> filter_ff(type, v4, v6, so)]
  /\ UNCHANGED <<so, so_others>>

\* bvc_perfmonitor_process_view makes the address of a peer graphite safe
PerfProcessView ==
  /\ \E addr \in Names :
       so_ev' = [kind |-> "perfmonitor", addr |-> addr,
                 safe |-> perf_graphite_safe(Str(addr))]
  /\ UNCHANGED <<so, so_others>>

\* no view-sender parses its options
SoIdle ==
  /\ so = SoStart(<<"a">>, SoAbsent, SoAbsent)
  /\ so_ev = SoNoCall

(***************************************************************************)
(* ASCII view dump                                                         *)
(***************************************************************************)

\* bgpview_v4pfx_cnt / bgpview_v6pfx_cnt with BGPVIEW_FIELD_ACTIVE
bgpview_pfx_cnt(view, version) ==
  Cardinality({pfx \in DOMAIN view.pfxs :
                 PfxActive(view, pfx) /\ pfx.address.version = version})

\* the three lines of the first wandio_printf
print_header(view) ==
  <<[line |-> "# View", val |-> Decimal(view.time)],
    [line |-> "# IPv4 Prefixes:", val |-> Decimal(bgpview_pfx_cnt(view, 4))],
    [line |-> "# IPv6 Prefixes:", val |-> Decimal(bgpview_pfx_cnt(view, 6))]>>

\* the line of the second wandio_printf, field by field: the numbers in
\* decimal, the strings as they are, and for the prefix, the peer address
\* and the path the value that the bgpstream formatter is given
print_pfx_peer(view, pfx, id) ==
  [line |-> "pfx-peer",
   time |-> Decimal(view.time),
   pfx |-> pfx,
   collector |-> view.sigs[id].collector_str,
   peer_asn |-> Decimal(view.sigs[id].peer_asnumber),
   peer_ip |-> view.sigs[id].peer_ip_addr,
   path |-> view.paths[view.pfxs[pfx][id].path + 1]]

\* the inner loop over the pfx-peers in ids, the outer loop over pfxs
RECURSIVE print_pfx_peers(_, _, _)
print_pfx_peers(view, pfx, ids) ==
  IF ids = <<>> THEN <<>>
  ELSE <<print_pfx_peer(view, pfx, Head(ids))>>
         \o print_pfx_peers(view, pfx, Tail(ids))

\* mutant: the loops take the prefixes and pfx-peers whatever their state
RECURSIVE print_pfxs_all(_, _)
print_pfxs_all(view, pfxs) ==
  IF pfxs = <<>> THEN <<>>
  ELSE print_pfx_peers(view, Head(pfxs), AllPfxPeerSeq(view, Head(pfxs)))
         \o print_pfxs_all(view, Tail(pfxs))

RECURSIVE print_pfxs(_, _)
print_pfxs(view, pfxs) ==
  IF pfxs = <<>> THEN <<>>
  ELSE print_pfx_peers(view, Head(pfxs), ActivePfxPeerSeq(view, Head(pfxs)))
         \o print_pfxs(view, Tail(pfxs))

\* mutant: bgpview_io_file_print with BGPVIEW_FIELD_ALL_VALID in its loops
bgpview_io_file_print_all(view, iter_ok) ==
  IF view = NoView THEN [ret |-> 0, out |-> <<>>]
  ELSE IF ~iter_ok THEN [ret |-> -1, out |-> <<>>]
  ELSE [ret |-> 0,
        out |-> print_header(view)
                  \o print_pfxs_all(view,
                        SelectSeq(PfxOrder,
                                  LAMBDA q : q \in DOMAIN view.pfxs))]

\* bgpview_io_file_print: the value returned and the lines written to
\* outfile; iter_ok tells whether bgpview_iter_create gave an iterator
bgpview_io_file_print(view, iter_ok) ==
  IF view = NoView THEN [ret |-> 0, out |-> <<>>]
  ELSE IF ~iter_ok THEN [ret |-> -1, out |-> <<>>]
  ELSE [ret |-> 0,
        out |-> print_header(view) \o print_pfxs(view, ActivePfxSeq(view))]

PrNoCall == [called |-> FALSE]

\* the writing process prints its view, or is handed NULL
FilePrint ==
  /\ \E view \in {f_view, NoView}, iter_ok \in BOOLEAN :
       \E r \in {bgpview_io_file_print(view, iter_ok)} :
         pr' = [called |-> TRUE, view |-> view, iter_ok |-> iter_ok,
                ret |-> r.ret, out |-> r.out]
  /\ UNCHANGED <<vs_vars, f_vars, rt_vars, k_vars, gc_vars, ar_vars, so_vars,
                 sp_vars>>

\* nothing is printed
PrIdle == pr = PrNoCall

(***************************************************************************)
(* The sub-prefix consumer (lib/consumers/bvc_subpfx.c)                    *)
(***************************************************************************)

\* process_view calls in one run
MaxSpCalls == 3

\* a prefix is the bits of its address up to its mask length; the prefixes
\* of the model are nested: each covers the longer ones
SpPfxOrder == <<(<<1>>), <<1, 0>>, <<1, 0, 1>>>>
SpPfxs == RangeOf(SpPfxOrder)

\* a view, for the consumer: each prefix is not in it (or not active), is
\* announced by partial-feed peers only, or is announced by a peer of
\* full_feed_peer_ids
SpViews == [SpPfxs -> {"none", "partial", "ff"}]

\* prefix a is less specific than b and holds it
covers(a, b) == Len(a) < Len(b) /\ SubSeq(b, 1, Len(a)) = a

\* NULL where a prefix is expected (no prefix of the model has length 0)
NoPfx == <<>>

\* bgpstream_patricia_tree_get_mincovering_prefix and the first node of the
\* result set: the most specific prefix of the tree that covers pfx
mincovering_prefix(pt, pfx) ==
  LET above == {q \in pt : covers(q, pfx)}
  IN  IF above = {} THEN NoPfx
      ELSE CHOOSE q \in above : \A r \in above : Len(r) <= Len(q)

\* CUR_SUBPFXS and PREV_SUBPFXS (the model's sequences begin at 1)
CUR_SUBPFXS(state) == state.subpfxs[state.current_subpfxs_idx + 1]
PREV_SUBPFXS(state) == state.subpfxs[((state.current_subpfxs_idx + 1) % 2) + 1]

\* bvc_subpfx_init: an empty tree, two empty maps, the first is current
bvc_subpfx_init ==
  [pt |-> {}, subpfxs |-> <<EmptyFun, EmptyFun>>, current_subpfxs_idx |-> 0]

\* find_subpfxs for the node of pfx: a prefix with a covering prefix is put
\* in the current map with it; assert(ret > 0) fails if it is there already
find_subpfxs(state, pfx) ==
  LET super_pfx == mincovering_prefix(state.pt, pfx)
      cur == CUR_SUBPFXS(state)
      put == [q \in DOMAIN cur \cup {pfx} |->
                IF q = pfx THEN super_pfx ELSE cur[q]]
  IN  IF super_pfx = NoPfx THEN [st |-> "ok", state |-> state]
      ELSE IF pfx \in DOMAIN cur THEN [st |-> "abort", state |-> state]
      ELSE [st |-> "ok",
            state |-> [state EXCEPT
                         !.subpfxs[state.current_subpfxs_idx + 1] = put]]

\* bgpstream_patricia_tree_walk(pt, find_subpfxs, consumer), from node i on
RECURSIVE patricia_tree_walk(_, _)
patricia_tree_walk(state, i) ==
  IF i > Len(SpPfxOrder) THEN [st |-> "ok", state |-> state]
  ELSE IF SpPfxOrder[i] \notin state.pt
  THEN patricia_tree_walk(state, i + 1)
  ELSE LET r == find_subpfxs(state, SpPfxOrder[i])
       IN  IF r.st # "ok" THEN r ELSE patricia_tree_walk(r.state, i + 1)

\* the loop of process_view that builds the tree, from prefix i on: the
\* active prefixes with a full-feed peer are inserted; insert_fails is the
\* prefix for which bgpstream_patricia_tree_insert returns NULL, if any
RECURSIVE build_tree(_, _, _, _)
build_tree(pt, view, i, insert_fails) ==
  IF i > Len(SpPfxOrder) THEN [ok |-> TRUE, pt |-> pt]
  ELSE LET pfx == SpPfxOrder[i]
       IN  IF view[pfx] # "ff" THEN build_tree(pt, view, i + 1, insert_fails)
           ELSE IF insert_fails = pfx THEN [ok |-> FALSE, pt |-> pt]
           ELSE build_tree(pt \cup {pfx}, view, i + 1, insert_fails)

\* the diff types NEW and FINISHED, as diff_type_strs prints them
DIFF_NEW == "NEW"
DIFF_FINISHED == "FINISHED"

\* subpfxs_diff: dump_subpfx is called, with diff_type, for each key of a
\* that is not a key of b (dump_subpfx returns 0)
subpfxs_diff(a, b, diff_type) ==
  {[pfx |-> pfx, super_pfx |-> a[pfx], diff_type |-> diff_type] :
     pfx \in DOMAIN a \ DOMAIN b}

\* what happens to a call: both files are created, or wandio_wcreate of the
\* events file fails (wandio_wdestroy(NULL) at err then ends the process,
\* or returns), or bgpview_iter_create fails, or the insert of a prefix
\* fails, or wandio_wcreate of the .done file fails
SpIo ==
  {[fails |-> "none"], [fails |-> "outfile", crash |-> FALSE],
   [fails |-> "outfile", crash |-> TRUE], [fails |-> "iter"],
   [fails |-> "done"]}
    \cup {[fails |-> "insert", pfx |-> pfx] : pfx \in SpPfxs}

\* bvc_subpfx_process_view: how the call ends ("ret", or "abort" for a
\* failed assert, or "crash"), the value returned, the state after it and
\* the events dumped
bvc_subpfx_process_view(state, view, io) ==
  LET out(st, ret, after, events) ==
        [st |-> st, ret |-> ret, state |-> after, events |-> events]
      built == build_tree(state.pt, view, 1,
                          IF io.fails = "insert" THEN io.pfx ELSE NoPfx)
      walked == patricia_tree_walk([state EXCEPT !.pt = built.pt], 1)
      events == subpfxs_diff(CUR_SUBPFXS(walked.state),
                             PREV_SUBPFXS(walked.state), DIFF_NEW)
                  \cup subpfxs_diff(PREV_SUBPFXS(walked.state),
                                    CUR_SUBPFXS(walked.state),
                                    DIFF_FINISHED)
      \* kh_clear(PREV_SUBPFXS), the rotation, and
      \* bgpstream_patricia_tree_clear
      idx == walked.state.current_subpfxs_idx
      rotated == [walked.state EXCEPT
                    !.subpfxs[((idx + 1) % 2) + 1] = EmptyFun,
                    !.current_subpfxs_idx = (idx + 1) % 2,
                    !.pt = {}]
  IN  IF io.fails = "outfile"
      THEN IF io.crash THEN out("crash", -1, state, {})
           ELSE out("ret", -1, state, {})
      ELSE IF io.fails = "iter" THEN out("ret", -1, state, {})
      ELSE IF ~built.ok
      THEN out("ret", -1, [state EXCEPT !.pt = built.pt], {})
      ELSE IF walked.st # "ok" THEN out("abort", -1, walked.state, {})
      ELSE IF io.fails = "done" THEN out("ret", -1, rotated, events)
      ELSE out("ret", 0, rotated, events)

SpNoCall ==
  [n |-> 0, last |-> [called |-> FALSE, st |-> "ret"],
   prev |-> [called |-> FALSE]]

\* the consumer is given a view
SpProcessView ==
  /\ sp_ev.n < MaxSpCalls
  /\ sp_ev.last.st = "ret"
  /\ \E view \in SpViews, io \in SpIo :
       /\ io.fails = "insert" => view[io.pfx] = "ff"
       /\ \E r \in {bvc_subpfx_process_view(sp, view, io)} :
            /\ sp' = r.state
            /\ sp_ev' =
                 [n |-> sp_ev.n + 1,
                  last |-> [called |-> TRUE, st |-> r.st, ret |-> r.ret,
                            view |-> view, events |-> r.events,
                            entry |-> sp],
                  prev |-> IF sp_ev.last.called
                           THEN [called |-> TRUE, ret |-> sp_ev.last.ret,
                                 view |-> sp_ev.last.view,
                                 entry_pt |-> sp_ev.last.entry.pt]
                           ELSE [called |-> FALSE]]
  /\ UNCHANGED sp_others

\* no sub-prefix consumer is configured
SpIdle == sp = bvc_subpfx_init /\ sp_ev = SpNoCall

\* the parts added after the Kafka client are idle
YIdle == GcIdle /\ ArIdle /\ SoIdle /\ PrIdle /\ SpIdle

(***************************************************************************)
(* Specifications                                                          *)
(***************************************************************************)

\* no view-sender consumer is configured
SenderIdle ==
  /\ vs_io = "kafka"
  /\ vs_sync_interval = 2
  /\ vs_parent = NoView
  /\ vs_calls = <<>>
  /\ vs_last = NoCall

\* no file is written or read
FileIdle ==
  /\ f_ndebug = FALSE
  /\ f_view = NoView
  /\ f_stream = <<>>
  /\ f_writes = <<>>
  /\ f_pos = 0
  /\ f_rview = NoView
  /\ f_reads = <<>>
  /\ f_edits = 0
  /\ f_damage = NoDamage

\* bvc_viewsender_init: malloc_zero, the default sync interval, parse_args,
\* configure_io
SenderInit ==
  /\ vs_io \in {"kafka", "zmq"}
  /\ vs_sync_interval \in SyncIntervals
  /\ vs_parent = NoView
  /\ vs_calls = <<>>
  /\ vs_last = NoCall
  /\ FileIdle
  /\ RtIdle
  /\ KafkaIdle
  /\ YIdle

SenderNext == ProcessViewKafka \/ ProcessViewZmq

SpecSender == SenderInit /\ [][SenderNext]_vars

\* a writing process that holds a view, an empty file, a reading process
\* with an empty view
CodecInit(views, builds) ==
  /\ f_ndebug \in builds
  /\ f_view \in views
  /\ f_stream = <<>>
  /\ f_writes = <<>>
  /\ f_pos = 0
  /\ f_rview \in ReaderViews
  /\ f_reads = <<>>
  /\ f_edits = 0
  /\ f_damage = NoDamage
  /\ SenderIdle
  /\ RtIdle
  /\ KafkaIdle
  /\ YIdle

\* views are written one after the other, without a filter, and read back,
\* each into a view that holds nothing. The build checks its assertions: a
\* run in which none fails is also the run of the build with NDEBUG.
FileInit == CodecInit(WriterViews, {FALSE})

FileNext ==
  FileSetTime \/ FileDeactivate \/ FileWrite \/ FileReadCleared \/ FileClear

SpecFile == FileInit /\ [][FileNext]_vars


(***************************************************************************)
(* Binary view file: what a view holds, whatever its ids are               *)
(***************************************************************************)

\* the peers of a view, by signature
PeerSet(view) ==
  {[sig |-> view.sigs[id], active |-> view.peers[id].active] :
     id \in DOMAIN view.peers}

\* the prefixes of a view
PfxSet(view) ==
  {[pfx |-> pfx, active |-> PfxActive(view, pfx)] : pfx \in DOMAIN view.pfxs}

\* the pfx-peers of a view, each with its path
PfxPeerSet(view) ==
  UNION {{[pfx |-> pfx, sig |-> view.sigs[id],
           path |-> view.paths[view.pfxs[pfx][id].path + 1],
           active |-> view.pfxs[pfx][id].active] :
            id \in DOMAIN view.pfxs[pfx]} : pfx \in DOMAIN view.pfxs}

Content(view) ==
  [time |-> view.time, peers |-> PeerSet(view), pfxs |-> PfxSet(view),
   pfx_peers |-> PfxPeerSet(view)]

\* what is left of Content when the inactive peers, prefixes and pfx-peers
\* are taken out
ActiveContent(view) ==
  [time |-> view.time,
   peers |-> {p \in PeerSet(view) : p.active},
   pfxs |-> {q \in PfxSet(view) : q.active},
   pfx_peers |-> {e \in PfxPeerSet(view) : e.active}]

\* a view without peers and prefixes, at time 0
IsCleared(view) == view # NoView /\ view = bgpview_clear(view)

\* read i is of the bytes of write k, unfiltered on both sides, into a
\* cleared view
ReadsBack(i, k) ==
  /\ i \in DOMAIN f_reads
  /\ k \in DOMAIN f_writes
  /\ f_writes[k].ret = 0
  /\ f_writes[k].cb = NoCb
  /\ f_reads[i].cbs = NoRcbs
  /\ f_reads[i].from = f_writes[k].at
  /\ IsCleared(f_reads[i].before)

HasInactive(view) == Content(view) # ActiveContent(view)

\* C3 (as stated): writing a view without a filter and reading the bytes
\* back into an empty view gives a view equal to the one written in time,
\* peers, prefixes and pfx-peers (with their paths), whatever the ids are,
\* also for a view with inactive peers, prefixes or pfx-peers.
C3_RoundTripAll ==
  \A i \in DOMAIN f_reads : \A k \in DOMAIN f_writes :
    ReadsBack(i, k) =>
      /\ f_reads[i].st = "ret"
      /\ f_reads[i].ret = 1
      /\ Content(f_reads[i].view) = Content(f_writes[k].view)

\* C3 (amended): writing a view without a filter and reading the bytes back
\* into an empty view returns 1 and gives the active part of the view
\* written: its time, its active peers, its active prefixes and its active
\* pfx-peers (with their paths), all of them active in the view read,
\* whatever the ids are; what is inactive in the view written is not in the
\* view read.
C3_RoundTripActive ==
  \A i \in DOMAIN f_reads : \A k \in DOMAIN f_writes :
    ReadsBack(i, k) =>
      /\ f_reads[i].st = "ret"
      /\ f_reads[i].ret = 1
      /\ Content(f_reads[i].view) = ActiveContent(f_writes[k].view)

\* a view with an inactive pfx-peer and active ones was written and read
\* back by a process that numbers the peers differently
C3_Witness ==
  \E i \in DOMAIN f_reads : \E k \in DOMAIN f_writes :
    /\ ReadsBack(i, k)
    /\ f_reads[i].ret = 1
    /\ HasInactive(f_writes[k].view)
    /\ ActiveContent(f_writes[k].view).pfx_peers # {}
    /\ f_reads[i].view.sigs # f_writes[k].view.sigs

PfxPeerSlots == Pfxs \X WriterPeerIds

\* the callback that leaves out the peers of rp, the prefixes of rq and the
\* pfx-peers of re, and writes the rest
RejectCb(rp, rq, re) ==
  [null |-> FALSE,
   peer |-> [id \in WriterPeerIds |-> IF id \in rp THEN 0 ELSE 1],
   pfx |-> [q \in Pfxs |-> IF q \in rq THEN 0 ELSE 1],
   pfx_peer |-> [q \in Pfxs |->
                   [id \in WriterPeerIds |-> IF <<q, id>> \in re THEN 0 ELSE 1]]]

\* the callbacks that fail: on peer 2, on PfxB, on the pfx-peer (PfxB, 1)
FailCbs ==
  {[RejectCb({}, {}, {}) EXCEPT !.peer[2] = -1],
   [RejectCb({}, {}, {}) EXCEPT !.pfx[PfxB] = -1],
   [RejectCb({}, {}, {}) EXCEPT !.pfx_peer[PfxB][1] = -1]}

Filters ==
  {RejectCb(rp, rq, re) : rp \in SUBSET WriterPeerIds, rq \in SUBSET Pfxs,
                          re \in SUBSET PfxPeerSlots}
    \cup FailCbs

\* the views with nothing inactive in them
FilterViews == {v \in WriterViews : ~HasInactive(v)}

\* the writing process writes its view to a new file through a filter
FilterWrite ==
  /\ f_writes = <<>>
  /\ \E cb \in Filters : WriteCall(cb)

FilterInit == CodecInit(FilterViews, BOOLEAN)

FilterNext == FilterWrite \/ FileRead

SpecFilter == FilterInit /\ [][FilterNext]_vars


(***************************************************************************)
(* Binary view file: reading a damaged file                                *)
(***************************************************************************)

\* the views of FilterViews in which every peer has a route for every prefix
CorruptViews ==
  {v \in FilterViews :
     \A pfx \in Pfxs : pfx \in DOMAIN v.pfxs /\ DOMAIN v.pfxs[pfx] = DOMAIN v.peers}
    \cup {v \in FilterViews : DOMAIN v.peers = {}}

\* the writing process writes its view to a new file
PlainWrite ==
  /\ f_writes = <<>>
  /\ WriteCall(NoCb)

\* the file loses its end: only its first n bytes are there to read
FileTruncate ==
  /\ f_writes # <<>>
  /\ f_reads = <<>>
  /\ f_damage = NoDamage
  /\ \E n \in 0..(Len(f_stream) - 1) :
       /\ f_stream' = SubSeq(f_stream, 1, n)
       /\ f_damage' = [kind |-> "truncated", at |-> n]
  /\ UNCHANGED <<f_ndebug, f_view, f_writes, f_pos, f_rview, f_reads, f_edits>>
  /\ UNCHANGED <<vs_vars, x_vars>>

\* one byte of the file changes: to 0, or to the next value
FileCorrupt ==
  /\ f_writes # <<>>
  /\ f_reads = <<>>
  /\ f_damage = NoDamage
  /\ \E at \in 1..Len(f_stream) :
       \E b \in {0, f_stream[at] + 1} \ {f_stream[at]} :
         /\ f_stream' = [f_stream EXCEPT ![at] = b]
         /\ f_damage' = [kind |-> "changed", at |-> at]
  /\ UNCHANGED <<f_ndebug, f_view, f_writes, f_pos, f_rview, f_reads, f_edits>>
  /\ UNCHANGED <<vs_vars, x_vars>>

CorruptInit == CodecInit(CorruptViews, BOOLEAN)

CorruptNext == PlainWrite \/ FileTruncate \/ FileCorrupt \/ FileRead

SpecCorrupt == CorruptInit /\ [][CorruptNext]_vars


(***************************************************************************)
(* Binary view file: claims about filters and damaged files                *)
(***************************************************************************)

\* what a filter accepts of a view: a peer it accepts, a prefix it accepts,
\* a pfx-peer it accepts whose peer and prefix it accepts
PeerAccepted(view, cb, id) == PeerActive(view, id) /\ cb_peer(cb, id) # 0
PfxPeerAccepted(view, cb, pfx, id) ==
  /\ PfxPeerActive(view, pfx, id)
  /\ PeerAccepted(view, cb, id)
  /\ cb_pfx(cb, pfx) # 0
  /\ cb_pfx_peer(cb, pfx, id) # 0

\* the projection of a view by a filter: the accepted peers, the accepted
\* prefixes that keep an accepted pfx-peer, the accepted pfx-peers of those
Projection(view, cb) ==
  [time |-> view.time,
   peers |-> {[sig |-> view.sigs[id], active |-> TRUE] :
                id \in {i \in DOMAIN view.peers : PeerAccepted(view, cb, i)}},
   pfxs |-> {[pfx |-> pfx, active |-> TRUE] :
               pfx \in {q \in DOMAIN view.pfxs :
                          \E i \in DOMAIN view.pfxs[q] :
                            PfxPeerAccepted(view, cb, q, i)}},
   pfx_peers |-> {e \in PfxPeerSet(view) :
                    \E i \in DOMAIN view.peers :
                      /\ view.sigs[i] = e.sig
                      /\ PfxPeerAccepted(view, cb, e.pfx, i)}]

\* read i is of the bytes of the complete write k, into a cleared view
ReadsFiltered(i, k) ==
  /\ i \in DOMAIN f_reads
  /\ k \in DOMAIN f_writes
  /\ f_writes[k].ret = 0
  /\ f_reads[i].cbs = NoRcbs
  /\ f_reads[i].from = f_writes[k].at
  /\ IsCleared(f_reads[i].before)

\* C4: the bytes written for a view through a filter are read back, with
\* return value 1, as the projection of the view by the filter.
C4_FilterProjection ==
  \A i \in DOMAIN f_reads : \A k \in DOMAIN f_writes :
    ReadsFiltered(i, k) =>
      /\ f_reads[i].st = "ret"
      /\ f_reads[i].ret = 1
      /\ Content(f_reads[i].view) = Projection(f_writes[k].view, f_writes[k].cb)

\* the filter of write k accepts prefix pfx and rejects every pfx-peer of it
AllPfxPeersRejected(k, pfx) ==
  /\ PfxActive(f_writes[k].view, pfx)
  /\ cb_pfx(f_writes[k].cb, pfx) > 0
  /\ \A id \in DOMAIN f_writes[k].view.pfxs[pfx] :
       PfxPeerActive(f_writes[k].view, pfx, id) =>
         cb_pfx_peer(f_writes[k].cb, pfx, id) = 0

\* C5: when the filter rejects every pfx-peer of a prefix, nothing of the
\* prefix is written (no address length, address or mask length), and the
\* prefix section is a sequence of complete records.
C5_NoHeaderWithoutPeers ==
  \A k \in DOMAIN f_writes :
    f_writes[k].ret = 0 =>
      /\ \A pfx \in Pfxs :
           AllPfxPeersRejected(k, pfx) => pfx \notin RangeOf(f_writes[k].hdrs)
      /\ f_writes[k].hdrs = [j \in DOMAIN f_writes[k].recs |->
                               f_writes[k].recs[j].pfx]

\* C6: a peer the filter rejects is not in the peer section and no pfx-peer
\* record has its id: every peer id of the prefix section is one of the
\* peer section.
C6_PeerIdsDeclared ==
  \A k \in DOMAIN f_writes :
    f_writes[k].ret = 0 =>
      /\ \A id \in RangeOf(f_writes[k].peers) :
           cb_peer(f_writes[k].cb, id) # 0
      /\ \A j \in DOMAIN f_writes[k].recs :
           RangeOf(f_writes[k].recs[j].peers) \subseteq RangeOf(f_writes[k].peers)

\* C7: a read that returns -1 leaves the view as it was: same time, peers,
\* prefixes and pfx-peers.
C7_FailedReadKeepsView ==
  \A i \in DOMAIN f_reads :
    (f_reads[i].st = "ret" /\ f_reads[i].ret = -1) =>
      Content(f_reads[i].view) = Content(f_reads[i].before)

\* C8: when a count read after a section differs from the number of records
\* read, the read returns -1: it does not return 1 and the process is not
\* terminated.
C8_CountMismatchFails ==
  \A i \in DOMAIN f_reads :
    f_reads[i].xfail => (f_reads[i].st = "ret" /\ f_reads[i].ret = -1)

\* C9: a read of a non-empty file returns -1 when the start magic is not
\* there, and also when the end magic is not there after the prefix
\* section; it returns 1 only for a view between both magics.
C9_BothMagicsRequired ==
  \A i \in DOMAIN f_reads :
    /\ (/\ Avail(f_stream, f_reads[i].from) > 0
        /\ ~check_magic(f_stream, f_reads[i].from, VIEW_START_MAGIC)) =>
         (f_reads[i].st = "ret" /\ f_reads[i].ret = -1)
    /\ (f_reads[i].st = "ret" /\ f_reads[i].ret = 1) =>
         /\ check_magic(f_stream, f_reads[i].from, VIEW_START_MAGIC)
         /\ f_reads[i].vend

RECURSIVE Cat(_)
Cat(ss) == IF ss = <<>> THEN <<>> ELSE Head(ss) \o Cat(Tail(ss))

\* the frames of a view, for the peers written (ids), every path of the
\* store and the prefix records written (recs, each a prefix with the ids of
\* its pfx-peers): each section is its records, its end magic and the number
\* of its records
Frames(view, ids, recs) ==
  LET peer(id) ==
        U16BE(id) \o U8(Len(view.sigs[id].collector_str))
          \o view.sigs[id].collector_str
          \o U8(Len(view.sigs[id].peer_ip_addr.addr))
          \o view.sigs[id].peer_ip_addr.addr
          \o U32BE(view.sigs[id].peer_asnumber)
      path(i) ==
        U32Host(i - 1) \o U8(view.paths[i].is_core)
          \o U16Host(Len(view.paths[i].data)) \o view.paths[i].data
      pfx_peer(q, id) == U16BE(id) \o U32Host(view.pfxs[q][id].path)
      pfx(r) ==
        U8(Len(r.pfx.address.addr)) \o r.pfx.address.addr
          \o U8(r.pfx.mask_len)
          \o Cat([j \in DOMAIN r.peers |-> pfx_peer(r.pfx, r.peers[j])])
          \o WRITE_MAGIC(VIEW_PEER_END_MAGIC) \o U16BE(Len(r.peers))
  IN WRITE_MAGIC(VIEW_START_MAGIC) \o U32BE(view.time)
       \o Cat([j \in DOMAIN ids |-> peer(ids[j])])
       \o WRITE_MAGIC(VIEW_PEER_END_MAGIC) \o U16BE(Len(ids))
       \o Cat([i \in DOMAIN view.paths |-> path(i)])
       \o WRITE_MAGIC(VIEW_PATH_END_MAGIC) \o U32BE(Len(view.paths))
       \o Cat([j \in DOMAIN recs |-> pfx(recs[j])])
       \o WRITE_MAGIC(VIEW_PFX_END_MAGIC) \o U32BE(Len(recs))
       \o WRITE_MAGIC(VIEW_END_MAGIC)

\* the bytes that write k appended to the file
WrittenBytes(k) ==
  SubSeq(f_stream, f_writes[k].at + 1, f_writes[k].at + f_writes[k].len)

\* C12: the bytes of a written view are, in this order and once each, the
\* start magic, the time, the peer records, the PEND magic and their number,
\* the path records, the PATH magic and their number, the prefix records
\* (each with its pfx-peer records, the PEND magic and their number), the
\* XEND magic and their number, the end magic; every prefix record has a
\* pfx-peer.
C12_FrameOrder ==
  \A k \in DOMAIN f_writes :
    f_writes[k].ret = 0 =>
      /\ WrittenBytes(k) =
           Frames(f_writes[k].view, f_writes[k].peers, f_writes[k].recs)
      /\ \A j \in DOMAIN f_writes[k].recs : f_writes[k].recs[j].peers # <<>>


(***************************************************************************)
(* Routing-table engine: its specification                                 *)
(***************************************************************************)
RtNext ==
  \/ RtRibBegin \/ RtRibEntry \/ RtRibEnd \/ RtAnnounce \/ RtWithdrawal
  \/ RtState \/ RtIntervalEnd

RtInit == RtIdle /\ SenderIdle /\ FileIdle /\ KafkaIdle /\ YIdle

SpecRt == RtInit /\ [][RtNext]_vars

(***************************************************************************)
(* Routing-table engine: the end of a valid RIB                            *)
(***************************************************************************)

\* C13: at interval_end with eovrib_flag set, for every peer with an open
\* under-construction RIB: each entry with UC_ANNOUNCED becomes an active
\* pfx-peer with the path uc_as_path_id, loses UC_ANNOUNCED and has
\* ANNOUNCED; each pfx-peer that was active and is not in that RIB is
\* inactive afterwards; the reference RIB takes the times of the
\* under-construction RIB, whose times are reset to 0.
C13_Promotion ==
  [][(rt_ev'.e.kind = "interval_end" /\ rt.eovrib_flag) =>
       \A p \in DOMAIN rt.pp :
         rt.uc_rib_start[p] # 0 =>
           /\ \A q \in DOMAIN rt.pp[p] :
                IF pfx_status_has(rt.pp[p][q].pfx_status,
                                  RT_UC_ANNOUNCED_PFXSTATUS)
                THEN /\ rt'.pp[p][q].active
                     /\ rt'.pp[p][q].path = rt.pp[p][q].uc_as_path_id
                     /\ ~pfx_status_has(rt'.pp[p][q].pfx_status,
                                        RT_UC_ANNOUNCED_PFXSTATUS)
                     /\ pfx_status_has(rt'.pp[p][q].pfx_status,
                                       RT_ANNOUNCED_PFXSTATUS)
                ELSE ~rt'.pp[p][q].active
           /\ rt'.ref_rib_start[p] = rt.uc_rib_start[p]
           /\ rt'.ref_rib_end[p] = rt.uc_rib_end[p]
           /\ rt'.uc_rib_start[p] = 0
           /\ rt'.uc_rib_end[p] = 0]_vars

\* a RIB of peer 1 that began at 101000 and ended at 101010 has been
\* promoted: prefix 2 is active with path 2, prefix 1, active before with
\* path 1 and not in the RIB, is inactive
C13_Witness ==
  /\ rt_ev.e.kind = "interval_end"
  /\ rt.ref_rib_start[1] = 101000 /\ rt.ref_rib_end[1] = 101010
  /\ rt.uc_rib_start[1] = 0 /\ rt.uc_rib_end[1] = 0
  /\ rt.pp[1][2].active /\ rt.pp[1][2].path = 2
  /\ rt.pp[1][2].pfx_status = RT_ANNOUNCED_PFXSTATUS
  /\ rt.pp[1][1].present /\ ~rt.pp[1][1].active /\ rt.pp[1][1].path = 1

(***************************************************************************)
(* Routing-table engine: peers that leave ESTABLISHED                      *)
(***************************************************************************)

C15_StaleUpdateDropped ==
  [][(/\ rt_ev'.e.kind \in {"announce", "withdrawal"}
      /\ rt_ev'.e.ts < rt.ref_rib_start[rt_ev'.e.p]) =>
       \A p \in DOMAIN rt.pp :
         \A q \in DOMAIN rt.pp[p] :
           /\ rt'.pp[p][q].active = rt.pp[p][q].active
           /\ rt'.pp[p][q].path = rt.pp[p][q].path]_vars

\* peer 1 is ESTABLISHED with a reference RIB that starts at 101010 and
\* has prefix 1 active with path 1; no RIB is under construction; its
\* announcement of prefix 1 with path 2 at 101000 has been handled
C15_Witness ==
  /\ rt_ev.e = [kind |-> "announce", p |-> 1, q |-> 1, path |-> 2,
                ts |-> 101000]
  /\ rt.fsm[1] = "ESTABLISHED"
  /\ rt.ref_rib_start[1] = 101010
  /\ rt.uc_rib_start[1] = 0
  /\ rt.pp[1][1].active /\ rt.pp[1][1].path = 1

(***************************************************************************)
(* Routing-table engine: deprecated information                            *)
(***************************************************************************)

\* C16: at interval_end(ts) the information of a (peer, prefix) is removed
\* only if it is inactive and its bgp_time_last_ts is lower than ts minus
\* RT_DEPRECATED_INFO_INTERVAL (24 hours); the clean-up neither removes nor
\* deactivates an active pfx-peer and does not reset the view: after it
\* the same pfx-peers are active, with the same paths, as before it.
C16_CleanUpKeepsActive ==
  [][rt_ev'.e.kind = "interval_end" =>
       \A p \in DOMAIN rt.pp :
         \A q \in DOMAIN rt.pp[p] :
           LET was == RtPromoted(rt).pp[p][q]
               is == rt'.pp[p][q]
           IN /\ (was.present /\ ~is.present) =>
                   /\ ~was.active
                   /\ was.bgp_time_last_ts < rt_ev'.e.ts - 24 * 3600
              /\ is.active = was.active
              /\ was.active => is = was]_vars

\* the interval that ends at 187420 has removed the information of
\* (peer 1, prefix 1), and has kept that of (peer 1, prefix 2), which is as
\* old and active
C16_Witness ==
  /\ rt_ev.e = [kind |-> "interval_end", ts |-> 187420]
  /\ rt_ev.removed = {<<1, 1>>}
  /\ rt.pp[1][1] = RtNoInfo
  /\ rt.pp[1][2].active /\ rt.pp[1][2].bgp_time_last_ts = 101000

(***************************************************************************)
(* Kafka client: its specification                                         *)
(***************************************************************************)
\* bgpview_io_kafka_init: the identity is mandatory but for the global
\* consumer; IDENTITY_MAX_LEN is a length that holds every name, or one
\* that does not hold the globalmeta names
KafkaInit ==
  /\ k_client \in ({KafkaClient(m, Str(<<"r", "0">>), c, l) :
               m \in {"PRODUCER", "DIRECT_CONSUMER"},
               c \in {NullStr, Str(<<"c">>)}, l \in {12, 64}}
            \cup {KafkaClient("GLOBAL_CONSUMER", NullStr, c, l) :
                    c \in {NullStr, Str(<<"c">>)}, l \in {12, 64}})
  /\ k_call = KafkaNoCall
  /\ k_log = KafkaNoLog
  /\ SenderIdle /\ FileIdle /\ RtIdle /\ YIdle

\* a client is started and destroyed, and rdkafka reports errors
KafkaNext ==
  \/ KafkaErrorCallback
  \/ KafkaStart \/ KafkaStartAttempt \/ KafkaStartSleep \/ KafkaStartFinish
  \/ KafkaDestroy \/ KafkaDrainPoll \/ KafkaRelease

\* a call that has begun goes on: the connect functions, sleep and
\* rd_kafka_poll return
KafkaFairness ==
  /\ WF_vars(KafkaStartAttempt \/ KafkaStartSleep \/ KafkaStartFinish)
  /\ WF_vars(KafkaDrainPoll \/ KafkaRelease)

SpecKafka == KafkaInit /\ [][KafkaNext]_vars /\ KafkaFairness

\* the topics of a client are connected one by one
KafkaTopicsNext == KafkaSingleTopicConnect

SpecKafkaTopics == KafkaInit /\ [][KafkaTopicsNext]_vars

(***************************************************************************)
(* Kafka client: the connection attempts of start                          *)
(***************************************************************************)

\* C17: bgpview_io_kafka_start attempts to connect at most 5 times; the
\* wait between two attempts is 10 s at first, doubles after each failed
\* attempt and is never more than 180 s; there is no wait before the first
\* attempt nor after the last one, after which start returns -1 if the
\* client is still not connected; and start always returns.
C17_StartBackoff ==
  /\ [](k_log.last.call = "start" =>
          /\ k_log.attempts <= 5
          /\ \A i \in DOMAIN k_log.sleeps :
               /\ k_log.sleeps[i] =
                    IF 10 * 2^(i - 1) > 180 THEN 180 ELSE 10 * 2^(i - 1)
               /\ k_log.sleeps[i] <= 180
          /\ Len(k_log.sleeps) <= k_log.attempts
          /\ (k_call.pc = "idle" /\ k_log.attempts > 0) =>
               Len(k_log.sleeps) = k_log.attempts - 1
          /\ (k_call.pc = "idle" /\ k_log.last.gave_up) =>
               /\ k_log.last.ret = -1
               /\ k_log.attempts = 5
               /\ k_client.connected = 0)
  /\ (k_call.pc \in {"start_loop", "start_sleep"} ~> k_call.pc = "idle")

\* start has given up after 5 attempts and waits of 10, 20, 40 and 80 s
C17_Witness ==
  /\ k_call.pc = "idle"
  /\ k_log.last = [call |-> "start", ret |-> -1, gave_up |-> TRUE,
                   members |-> FALSE]
  /\ k_log.attempts = 5
  /\ k_log.sleeps = <<10, 20, 40, 80>>


(***************************************************************************)
(* Kafka client: the error callback                                        *)
(***************************************************************************)

\* C18: kafka_error_callback sets connected to 0 for DESTROY, FAIL,
\* TRANSPORT, ALL_BROKERS_DOWN, BAD_COMPRESSION and RESOLVE, sets
\* fatal_error for the last two only, and changes nothing else of the
\* client; for any other error it changes neither flag; and no step resets
\* fatal_error once it is set.
C18_ErrorCallbackFlags ==
  [][/\ (k_log'.last.call = "error_callback"
         /\ k_log'.errs = k_log.errs + 1) =>
          LET err == k_log'.last.err
              fatal == err \in {"BAD_COMPRESSION", "RESOLVE"}
              transport ==
                fatal \/ err \in {"DESTROY", "FAIL", "TRANSPORT",
                                   "ALL_BROKERS_DOWN"}
          IN /\ k_client'.connected =
                  IF transport THEN 0 ELSE k_client.connected
             /\ k_client'.fatal_error =
                  IF fatal THEN 1 ELSE k_client.fatal_error
             /\ [k_client' EXCEPT !.connected = 0, !.fatal_error = 0]
                  = [k_client EXCEPT !.connected = 0, !.fatal_error = 0]
     /\ k_client.fatal_error = 1 => k_client'.fatal_error = 1]_vars

\* a connected producer with its topics has had the fatal error RESOLVE
\* and then the error TIMED_OUT: it is not connected, fatal_error is
\* still set, the topics are as they were
C18_Witness ==
  /\ k_log.errs = 2
  /\ k_log.last = [call |-> "error_callback", err |-> "TIMED_OUT"]
  /\ k_client.fatal_error = 1 /\ k_client.connected = 0
  /\ k_client.mode = "PRODUCER"
  /\ k_client.topics["MEMBERS"].rkt


(***************************************************************************)
(* Kafka client: the names of the topics                                   *)
(***************************************************************************)

\* C19: for every topic id, bgpview_io_kafka_single_topic_connect names
\* the pfxs, peers and meta topics <namespace>.<identity>.<name>, the
\* members topic <namespace>.members, and the globalmeta topic
\* <namespace>.globalmeta without a channel and
\* <namespace>.globalmeta.<channel> with one.
C19_TopicNames ==
  (k_log.last.call = "single_topic_connect" /\ k_log.last.ret = 0) =>
    LET id == k_log.last.id
        ns == k_client.namespace.s
    IN k_client.topics[id].name =
         IF id \in {"PFXS", "PEERS", "META"}
         THEN Dot3(ns, k_log.last.identity.s, names[id])
         ELSE IF id = "MEMBERS" THEN Dot2(ns, names["MEMBERS"])
         ELSE IF k_client.channel = NullStr
         THEN Dot2(ns, names["GLOBALMETA"])
         ELSE Dot3(ns, names["GLOBALMETA"], k_client.channel.s)


(***************************************************************************)
(* Kafka client: the drain loop of destroy                                 *)
(***************************************************************************)

GcInit ==
  /\ GcIdle /\ ArIdle /\ SoIdle /\ PrIdle /\ SpIdle
  /\ SenderIdle /\ FileIdle /\ RtIdle /\ KafkaIdle

\* the workers run, the main thread hands them jobs and frees them
GcNext ==
  \/ \E i \in GcIds : GcWorker(i) \/ GcAssignJob(i) \/ GcCollectJob(i)
                        \/ GcFreeCall(i)
  \/ GcFreeSet \/ GcFreeSignal \/ GcFreeJoin

\* every thread that can take a step is scheduled, and free_gc_topics goes
\* on line by line
GcFairness ==
  /\ \A i \in GcIds : WF_vars(GcWorker(i))
  /\ WF_vars(GcFreeSet \/ GcFreeSignal \/ GcFreeJoin)

SpecGc == GcInit /\ [][GcNext]_vars /\ GcFairness

\* C21: whenever free_gc_topics is called for a topic, whatever its worker
\* is doing, the worker observes the shutdown and pthread_join returns:
\* the call ends with the topic's state released.
C21_ShutdownJoins ==
  \A i \in GcIds :
    (gc_main.pc = "set" /\ gc_main.i = i) ~> gc[i].freed

(***************************************************************************)
(* Archiver: rotation of the output file                                   *)
(***************************************************************************)

\* bvc_archiver_init with a template (ASCII to stdout, binary to files),
\* and with or without -l, -r and -a
ArInit ==
  /\ ar \in {bvc_archiver_init(p, IF p = <<"-">> THEN "ASCII" ELSE "BINARY",
                                 l, I, a) :
               p \in ArPatterns, l \in BOOLEAN, I \in RotationIntervals,
               a \in {0, 1}}
  /\ ar_ev = ArNoCall
  /\ GcIdle /\ SoIdle /\ PrIdle /\ SpIdle
  /\ SenderIdle /\ FileIdle /\ RtIdle /\ KafkaIdle

\* views are processed, of any time, and the consumer is destroyed
ArNext == ArProcessView \/ ArDestroy

SpecAr == ArInit /\ [][ArNext]_vars

\* whether a call opened an output file
ArOpened(ev) == \E j \in DOMAIN ev.ops : ev.ops[j].op = "open"

\* C22: with a rotation interval I > 0 and alignment, while the view times
\* are non-decreasing, a view of time t that is processed is written to the
\* file named for floor(t / I) * I, which is then the open output file; and
\* with an output file open, named for the time F, the call opens a new
\* file exactly when t >= F + I.
C22_RotationAligned ==
  [][LET I == ar.rotation_interval
         t == ar_ev'.time
         ops == ar_ev'.ops
         name == generate_file_name(ar.outfile_pattern, (t \div I) * I)
     IN  (/\ ar_ev'.kind = "process_view"
          /\ I > 0 /\ ar.rotate_noalign = 0
          /\ ar_ev'.mono
          /\ ar_ev'.ret = 0) =>
           /\ Len(ops) > 0
           /\ ops[Len(ops)].op \in {"print", "write"}
           /\ ops[Len(ops)].name = name
           /\ ops[Len(ops)].time = t
           /\ ar'.outfile = Str(name)
           /\ ar.outfile # NullStr =>
                (ArOpened(ar_ev') <=> t >= ar_ev.file_time + I)]_vars

\* C22 where the time of the open file plus I is a uint32_t
C22_BelowWrap ==
  [][LET I == ar.rotation_interval
         t == ar_ev'.time
         ops == ar_ev'.ops
         name == generate_file_name(ar.outfile_pattern, (t \div I) * I)
     IN  (/\ ar_ev'.kind = "process_view"
          /\ I > 0 /\ ar.rotate_noalign = 0
          /\ ar_ev'.mono
          /\ ar_ev'.ret = 0) =>
           /\ Len(ops) > 0
           /\ ops[Len(ops)].op \in {"print", "write"}
           /\ ops[Len(ops)].name = name
           /\ ops[Len(ops)].time = t
           /\ ar'.outfile = Str(name)
           /\ (ar.outfile # NullStr /\ ar_ev.file_time + I < TimeLimit) =>
                (ArOpened(ar_ev') <=> t >= ar_ev.file_time + I)]_vars

(***************************************************************************)
(* Archiver: the latest file                                               *)
(***************************************************************************)

\* the output file that is open after the first j operations of a call that
\* began with the output file `before`
RECURSIVE ArOpenAfter(_, _, _)
ArOpenAfter(before, ops, j) ==
  IF j = 0 THEN before
  ELSE IF ops[j].op = "close" THEN NullStr
  ELSE IF ops[j].op = "open" THEN Str(ops[j].name)
  ELSE ArOpenAfter(before, ops, j - 1)

C23_WitnessDestroy ==
  /\ ar_ev.kind = "destroy" /\ ar.freed
  /\ Len(ar_ev.ops) = 2
  /\ ar_ev.ops[2].op = "latest"


(***************************************************************************)
(* View-sender: the cadence of sync frames                                 *)
(***************************************************************************)

\* a view-sender step that follows a first sync (a parent view exists) and
\* whose view is later than the view processed before it
C24_NextView ==
  /\ vs_io = "kafka"
  /\ vs_parent # NoView
  /\ vs_last.called /\ vs_last'.called
  /\ vs_last.view.time < vs_last'.view.time

\* whether the view times reached or passed a multiple of sync_interval
C24_Crossed(from, to) ==
  from \div vs_sync_interval < to \div vs_sync_interval

\* C24 as stated: after the first sync, with increasing view times, a sync
\* frame is sent whenever the view times reach or pass the next multiple of
\* sync_interval, also when the view's time is not that multiple.
C24_SyncEveryInterval ==
  [][(C24_NextView /\ C24_Crossed(vs_last.view.time, vs_last'.view.time)) =>
       vs_last'.sent = "sync"]_vars

\* C24: after the first sync, with increasing view times, a view is sent as
\* a sync frame exactly when its time is a multiple of sync_interval; a view
\* whose time passed a multiple without falling on it is sent as a diff
\* frame against the parent view.
C24_SyncOnMultiples ==
  [][C24_NextView =>
       /\ vs_last'.sent = "sync" <=> OnCadence(vs_last'.view.time)
       /\ vs_last'.sent = "diff" <=> ~OnCadence(vs_last'.view.time)
       /\ vs_last'.sent = "diff" => vs_last'.pvp = vs_parent]_vars

\* after a sync at a multiple of sync_interval, the next view sent passed
\* the next multiple without falling on it, and went out as a diff frame
C24_Witness ==
  /\ vs_io = "kafka"
  /\ Len(vs_calls) = 2
  /\ vs_calls[1].kind = "sync" /\ vs_calls[1].ok
  /\ vs_calls[2].kind = "diff"
  /\ C24_Crossed(vs_calls[1].time, vs_calls[2].time)
  /\ vs_last.sent = "diff" /\ vs_last.view.time = vs_calls[2].time


(***************************************************************************)
(* View-sender: the full-feed filter                                       *)
(***************************************************************************)

\* bvc_viewsender_init with -n, and with or without -4 and -6
FfInit ==
  /\ so \in {SoStart(<<"a", ".">>, four, six) :
               four \in {SoAbsent, SoGiven(2)}, six \in {SoAbsent, SoGiven(2)}}
  /\ so_ev = SoNoCall
  /\ GcIdle /\ ArIdle /\ PrIdle /\ SpIdle
  /\ SenderIdle /\ FileIdle /\ RtIdle /\ KafkaIdle

\* the options are parsed, and the filter is called
FfNext == SoParseArgs \/ SoFilterFf

SpecFf == FfInit /\ [][FfNext]_vars

C26_StrictlyMore ==
  (/\ so_ev.kind = "filter_ff"
   /\ so_ev.type \in {"PEER", "PFX_PEER"}
   /\ so_ev.v4 = so.filter_ff_v4cnt
   /\ so_ev.v6 < so.filter_ff_v6cnt) =>
    so_ev.ret = 0


(***************************************************************************)
(* Binary view file: the peers of the view read                            *)
(***************************************************************************)

\* view invariant 2: a peer is active if and only if a prefix has an active
\* pfx-peer for it
ViewInvariant2(view) ==
  \A id \in DOMAIN view.peers :
    view.peers[id].active <=>
      \E pfx \in DOMAIN view.pfxs : PfxPeerActive(view, pfx, id)

\* C27: after bgpview_io_file_read returned 1 into a view without peers and
\* prefixes, for a file written from a view in which invariant 2 holds,
\* invariant 2 holds in the view read: a peer is active if and only if a
\* prefix has an active pfx-peer for it.
C27_PeerActiveIffPfxPeer ==
  \A i \in DOMAIN f_reads :
    (/\ f_reads[i].st = "ret" /\ f_reads[i].ret = 1
     /\ IsCleared(f_reads[i].before)
     /\ \A k \in DOMAIN f_writes : ViewInvariant2(f_writes[k].view)) =>
      ViewInvariant2(f_reads[i].view)


(***************************************************************************)
(* ASCII view dump: what is printed                                        *)
(***************************************************************************)

\* a writing process holds a view, writes it, changes it and prints it
PrintInit == CodecInit(WriterViews, {FALSE})

PrintNext == FileSetTime \/ FileDeactivate \/ FileWrite \/ FilePrint

SpecPrint == PrintInit /\ [][PrintNext]_vars

\* the (prefix, peer id) pairs of the view that are active pfx-peers
ActivePfxPeers(view) ==
  {pp \in (DOMAIN view.pfxs) \X (1..Len(view.sigs)) :
     PfxPeerActive(view, pp[1], pp[2])}

\* C28: bgpview_io_file_print of a NULL view returns 0 and prints nothing;
\* of a view, once its iterator is created, it prints the three header
\* lines (the view's time, the number of active IPv4 prefixes, the number
\* of active IPv6 prefixes) and then exactly one line for each active
\* pfx-peer of the view, each line with the view's time; inactive prefixes
\* and inactive pfx-peers have no line.
C28_PrintActivePfxPeers ==
  pr.called =>
    /\ pr.view = NoView => pr.ret = 0 /\ pr.out = <<>>
    /\ pr.view # NoView /\ pr.ret # 0 => ~pr.iter_ok /\ pr.out = <<>>
    /\ pr.view # NoView /\ pr.iter_ok =>
         /\ pr.ret = 0
         /\ Len(pr.out) = 3 + Cardinality(ActivePfxPeers(pr.view))
         /\ pr.out[1] = [line |-> "# View", val |-> Decimal(pr.view.time)]
         /\ pr.out[2] =
              [line |-> "# IPv4 Prefixes:",
               val |-> Decimal(Cardinality({q \in DOMAIN pr.view.pfxs :
                         PfxActive(pr.view, q) /\ q.address.version = 4}))]
         /\ pr.out[3] =
              [line |-> "# IPv6 Prefixes:",
               val |-> Decimal(Cardinality({q \in DOMAIN pr.view.pfxs :
                         PfxActive(pr.view, q) /\ q.address.version = 6}))]
         /\ \A n \in 4..Len(pr.out) :
              /\ pr.out[n].line = "pfx-peer"
              /\ pr.out[n].time = Decimal(pr.view.time)
              /\ PfxActive(pr.view, pr.out[n].pfx)
         /\ \A pp \in ActivePfxPeers(pr.view) :
              \E n \in 4..Len(pr.out) :
                /\ pr.out[n].pfx = pp[1]
                /\ pr.out[n].collector = pr.view.sigs[pp[2]].collector_str
                /\ pr.out[n].peer_ip = pr.view.sigs[pp[2]].peer_ip_addr
                /\ pr.out[n].peer_asn =
                     Decimal(pr.view.sigs[pp[2]].peer_asnumber)

\* a view with an active and an inactive pfx-peer and an inactive prefix
\* was printed after its time was changed
C28_Witness ==
  /\ pr.called /\ pr.view # NoView /\ pr.ret = 0
  /\ pr.view.time # FirstTime
  /\ Len(pr.out) > 3
  /\ \E q \in DOMAIN pr.view.pfxs : ~PfxActive(pr.view, q)
  /\ \E q \in DOMAIN pr.view.pfxs :
       /\ PfxActive(pr.view, q)
       /\ \E id \in DOMAIN pr.view.pfxs[q] : ~pr.view.pfxs[q][id].active

\* a NULL view was printed
C28_WitnessNull == pr.called /\ pr.view = NoView


(***************************************************************************)
(* Binary view file: an address length that is neither 4 nor 16            *)
(***************************************************************************)

\* the offsets in the file of the bytes that write k wrote as the address
\* length of its j-th peer record and of its j-th prefix record
RECURSIVE PeerRecordsLen(_, _, _)
PeerRecordsLen(view, ids, n) ==
  IF n = 0 THEN 0
  ELSE PeerRecordsLen(view, ids, n - 1)
         + 2 + 1 + Len(view.sigs[ids[n]].collector_str)
         + 1 + Len(view.sigs[ids[n]].peer_ip_addr.addr) + 4
PeerIpLenAt(k, j) ==
  f_writes[k].at + 8 + 4
    + PeerRecordsLen(f_writes[k].view, f_writes[k].peers, j - 1)
    + 2 + 1 + Len(f_writes[k].view.sigs[f_writes[k].peers[j]].collector_str)
PfxIpLenAt(k, j) ==
  f_writes[k].at + f_writes[k].pfxs_at
    + (IF j = 1 THEN 0 ELSE f_writes[k].recs[j - 1].cnt_at + 2)

\* the byte at offset at is not one of the two address lengths, and every
\* byte of the written view before it is as it was written
BadIpLenAt(at) ==
  /\ f_damage.kind = "changed"
  /\ f_damage.at = at + 1
  /\ f_stream[at + 1] \notin {4, 16}

\* C29: when the byte read as the address length of a peer or of a prefix
\* is neither 4 nor 16, read_ip returns -1, bgpview_io_file_read returns -1,
\* and the view holds neither that peer nor that prefix.
C29_BadIpLenFails ==
  \A i \in DOMAIN f_reads :
    f_reads[i].from = 0 =>
      /\ \A j \in DOMAIN f_writes[1].peers :
           BadIpLenAt(PeerIpLenAt(1, j)) =>
             /\ \A g \in Garbage :
                  read_ip(f_stream, PeerIpLenAt(1, j), g).ret = -1
             /\ f_reads[i].st = "ret" /\ f_reads[i].ret = -1
             /\ Cardinality(DOMAIN f_reads[i].view.peers) = j - 1
             /\ \A id \in DOMAIN f_reads[i].view.peers :
                  f_reads[i].view.sigs[id] #
                    f_writes[1].view.sigs[f_writes[1].peers[j]]
      /\ \A j \in DOMAIN f_writes[1].recs :
           BadIpLenAt(PfxIpLenAt(1, j)) =>
             /\ \A g \in Garbage :
                  read_ip(f_stream, PfxIpLenAt(1, j), g).ret = -1
             /\ f_reads[i].st = "ret" /\ f_reads[i].ret = -1
             /\ Cardinality(DOMAIN f_reads[i].view.pfxs) = j - 1
             /\ f_writes[1].recs[j].pfx \notin DOMAIN f_reads[i].view.pfxs

\* the address length of the second prefix was changed, and the file read
C29_Witness ==
  /\ Len(f_reads) = 1
  /\ Len(f_writes[1].recs) = 2
  /\ BadIpLenAt(PfxIpLenAt(1, 2))
  /\ f_reads[1].ret = -1
  /\ DOMAIN f_reads[1].view.pfxs # {}

\* the address length of the second peer was changed, and the file read
C29_WitnessPeer ==
  /\ Len(f_reads) = 1
  /\ Len(f_writes[1].peers) = 2
  /\ BadIpLenAt(PeerIpLenAt(1, 2))
  /\ f_reads[1].ret = -1
  /\ DOMAIN f_reads[1].view.peers # {}


(***************************************************************************)
(* Graphite-safe strings                                                   *)
(***************************************************************************)

\* a view-sender is given an instance name; a perfmonitor consumer
\* processes views with peers of any address
GsInit ==
  /\ so \in {SoStart(name, SoAbsent, SoAbsent) : name \in Names}
  /\ so_ev = SoNoCall
  /\ GcIdle /\ ArIdle /\ PrIdle /\ SpIdle
  /\ SenderIdle /\ FileIdle /\ RtIdle /\ KafkaIdle

GsNext == SoParseArgs \/ PerfProcessView

SpecGs == GsInit /\ [][GsNext]_vars

\* to is from with every "." replaced by "_", every "*" by "-" and every
\* other character as it is
SafeCopyOf(to, from) ==
  /\ Len(to) = Len(from)
  /\ \A i \in DOMAIN from :
       to[i] = (IF from[i] = "." THEN "_"
                ELSE IF from[i] = "*" THEN "-" ELSE from[i])

\* C30: graphite_safe gives a string of the same length with every "."
\* replaced by "_", every "*" by "-" and the other characters unchanged,
\* applying it again changes nothing, and the view-sender's and the
\* perfmonitor's copies give the same string; parse_args leaves optarg and
\* the instance string as given and makes only gr_instance graphite safe.
C30_GraphiteSafe ==
  [][/\ so_ev'.kind = "parse_args" =>
          LET name == so.heap[1]
              instance == SoDeref(so'.heap, so'.instance)
              gr_instance == SoDeref(so'.heap, so'.gr_instance)
          IN  /\ so'.heap[1] = name
              /\ so'.instance # 0 =>
                   /\ instance = name
                   /\ so'.instance \notin {1, so'.gr_instance}
              /\ so'.gr_instance # 0 =>
                   /\ SafeCopyOf(gr_instance.s, name.s)
                   /\ graphite_safe(gr_instance) = gr_instance
                   /\ perf_graphite_safe(name) = gr_instance
     /\ so_ev'.kind = "perfmonitor" =>
          /\ SafeCopyOf(so_ev'.safe.s, so_ev'.addr)
          /\ perf_graphite_safe(so_ev'.safe) = so_ev'.safe
          /\ graphite_safe(Str(so_ev'.addr)) = so_ev'.safe]_vars

\* a name with a dot and a star was parsed into both strings, and the
\* perfmonitor made an address with a dot graphite safe
C30_Witness ==
  /\ so.parsed /\ so.instance # 0 /\ so.gr_instance # 0
  /\ so.heap[1] = Str(<<".", "*">>)
  /\ so_ev.kind = "perfmonitor"
  /\ \E i \in DOMAIN so_ev.addr : so_ev.addr[i] = "."


(***************************************************************************)
(* View-sender: the parent view                                            *)
(***************************************************************************)

\* the last bgpview_io_kafka_send_view call was made by the last
\* process_view call and returned 0
LastViewWasSent ==
  /\ vs_last.called /\ vs_last.sent # "none"
  /\ vs_calls # <<>> /\ vs_calls[Len(vs_calls)].ok

\* C31: with the Kafka module, after every process_view call, a parent
\* view that exists is a copy of the most recent view that was sent: the
\* view of this call when it was sent, else the parent as it was before the
\* call; this also holds when the call returned -1 because bgpview_dup or
\* bgpview_copy failed.
C31_ParentIsLastSent ==
  (vs_io = "kafka" /\ vs_last.called /\ vs_parent # NoView) =>
    IF LastViewWasSent
    THEN vs_parent = vs_last.view
    ELSE vs_parent = vs_last.before


\* the first half of C32: a process_view call whose send_view failed
\* returned -1 and left the parent view as it was
C32_ParentUnchanged ==
  (/\ vs_io = "kafka" /\ vs_last.called /\ vs_last.sent # "none"
   /\ ~vs_calls[Len(vs_calls)].ok) =>
    /\ vs_last.ret = -1
    /\ vs_parent = vs_last.before

\* C32: with the Kafka module, a process_view call whose send_view failed
\* returns -1 and leaves the parent view as it was, and the parent it
\* leaves, against which the next diff frame is computed, is the last view
\* that was sent successfully (it has the time of that view).
C32_FailedSendKeepsParent ==
  /\ C32_ParentUnchanged
  /\ (/\ vs_io = "kafka" /\ vs_last.called /\ vs_last.sent # "none"
      /\ ~vs_calls[Len(vs_calls)].ok /\ vs_parent # NoView) =>
       \E j \in 1..(Len(vs_calls) - 1) :
         /\ vs_calls[j].ok
         /\ \A k \in (j + 1)..Len(vs_calls) : ~vs_calls[k].ok
         /\ vs_parent.time = vs_calls[j].time


(***************************************************************************)
(* View-sender: the sync interval given with -s                            *)
(***************************************************************************)

\* the strings given with -s
SyncArgs == {<<"2">>, <<"0">>, <<"-", "1">>, <<"x">>, <<"3", "x">>}

\* atoi: an optional sign, then the digits up to the first other character
RECURSIVE atoi_digits(_, _, _)
atoi_digits(s, i, acc) ==
  IF i > Len(s) \/ \A d \in DOMAIN Digits : Digits[d] # s[i] THEN acc
  ELSE atoi_digits(s, i + 1,
         10 * acc + (CHOOSE d \in DOMAIN Digits : Digits[d] = s[i]) - 1)
atoi(s) ==
  IF s # <<>> /\ s[1] = "-" THEN 0 - atoi_digits(s, 2, 0)
  ELSE atoi_digits(s, 1, 0)

\* bvc_viewsender_init with -i kafka and -s: parse_args takes any value
SyncInit ==
  /\ vs_io = "kafka"
  /\ vs_sync_interval \in {atoi(a) : a \in SyncArgs}
  /\ vs_parent = NoView
  /\ vs_calls = <<>>
  /\ vs_last = NoCall
  /\ FileIdle /\ RtIdle /\ KafkaIdle /\ YIdle

SyncNext == ProcessViewKafka

SpecSync == SyncInit /\ [][SyncNext]_vars

\* C33: whatever value was given with -s, sync_interval is strictly
\* positive whenever process_view computes the sync time, and the
\* computation never divides by zero.
C33_SyncIntervalPositive ==
  vs_last.called =>
    /\ vs_sync_interval > 0
    /\ vs_last.sent # "SIGFPE"


(***************************************************************************)
(* Binary view file: reading with a peer callback                          *)
(***************************************************************************)

\* the peer_cb that rejects the peers with a signature of rej (and never
\* fails); pfx_cb and pfx_peer_cb are NULL
PeerRcbs(rej) ==
  [peer |-> [null |-> FALSE, err |-> {}, rej |-> rej],
   pfx |-> NoRcb, pfx_peer |-> NoRcb]

\* the reading process reads the file with a peer callback
FileReadPeerCb ==
  /\ f_reads = <<>>
  /\ \E rej \in SUBSET RangeOf(WriterSigs) : ReadCall(PeerRcbs(rej))

\* a view with every item active is written without a filter, and read
\* through a peer callback
ReadCbInit == CodecInit(FilterViews, BOOLEAN)

ReadCbNext == PlainWrite \/ FileReadPeerCb

SpecReadCb == ReadCbInit /\ [][ReadCbNext]_vars

\* read i is of the bytes of the complete write 1, through a peer_cb that
\* rejects a peer that write 1 declared
RejectsDeclared(i) ==
  /\ f_writes[1].ret = 0
  /\ f_reads[i].from = 0
  /\ ~f_reads[i].cbs.peer.null
  /\ \E j \in DOMAIN f_writes[1].peers :
       f_writes[1].view.sigs[f_writes[1].peers[j]] \in f_reads[i].cbs.peer.rej

\* C34: when peer_cb rejects a peer declared in the peer section, the read
\* goes on to its end (no assertion fails and the peer id map is not read
\* outside its length), no pfx-peer is added with the local peer id 0, and
\* the view holds the pfx-peers of the accepted peers, and only these.
C34_RejectedPeerSkipped ==
  \A i \in DOMAIN f_reads :
    RejectsDeclared(i) =>
      /\ f_reads[i].st = "ret"
      /\ f_reads[i].ret = 1
      /\ \A pfx \in DOMAIN f_reads[i].view.pfxs :
           0 \notin DOMAIN f_reads[i].view.pfxs[pfx]
      /\ PfxPeerSet(f_reads[i].view) =
           {e \in PfxPeerSet(f_writes[1].view) :
              e.sig \notin f_reads[i].cbs.peer.rej}


(***************************************************************************)
(* Kafka client: what start has done when it returns                       *)
(***************************************************************************)

\* every topic of the client's mode is connected
TopicsConnected ==
  \A i \in DOMAIN TopicIds :
    ~topic_skipped(k_client.mode, TopicIds[i]) =>
      k_client.topics[TopicIds[i]].rkt

\* start has returned, and nothing was called since
StartReturned == k_log.last.call = "start" /\ k_call.pc = "idle"

\* C35: when bgpview_io_kafka_start returns 0 the client is connected and
\* every topic of its mode is connected (producer: pfxs, peers, meta,
\* members; direct consumer: pfxs, peers, meta; global consumer:
\* globalmeta); the members update is sent only by a producer whose start
\* returns 0, with its topics connected, and never when start returns -1.
C35_StartConnectsTopics ==
  StartReturned =>
    /\ k_log.last.ret \in {0, -1}
    /\ k_log.last.ret = 0 =>
         /\ k_client.connected # 0
         /\ TopicsConnected
         /\ k_client.mode = "PRODUCER" =>
              \A id \in {"PFXS", "PEERS", "META", "MEMBERS"} :
                k_client.topics[id].rkt
         /\ k_client.mode = "DIRECT_CONSUMER" =>
              \A id \in {"PFXS", "PEERS", "META"} : k_client.topics[id].rkt
         /\ k_client.mode = "GLOBAL_CONSUMER" =>
              k_client.topics["GLOBALMETA"].rkt
    /\ k_log.last.members =>
         /\ k_log.last.ret = 0
         /\ k_client.mode = "PRODUCER"
         /\ TopicsConnected

\* a producer connected at its second attempt, connected its topics and
\* sent its members update
C35_Witness ==
  /\ StartReturned
  /\ k_log.last.ret = 0
  /\ k_log.last.members
  /\ k_client.mode = "PRODUCER"
  /\ k_log.attempts = 2

\* the start of a connected client returned -1 for a topic
C35_WitnessFailed ==
  /\ StartReturned
  /\ k_log.last.ret = -1
  /\ k_client.connected # 0
  /\ ~TopicsConnected


(***************************************************************************)
(* Archiver: the time of the next rotation                                 *)
(***************************************************************************)

\* a view was processed with return value 0 by an archiver that rotates
ArRotatingDone ==
  ar_ev.kind = "process_view" /\ ar_ev.ret = 0 /\ ar.rotation_interval > 0

\* C36: with a rotation interval I > 0, after a process_view that returned
\* 0 an output file is open, next_rotate_time is the time the file was
\* named for plus I, and the view written has a time below
\* next_rotate_time, also when that sum does not fit in a uint32_t.
C36_NextRotateTime ==
  ArRotatingDone =>
    /\ ar.outfile # NullStr
    /\ ar.next_rotate_time = ar_ev.file_time + ar.rotation_interval
    /\ ar_ev.time < ar.next_rotate_time

\* C36 where the time of the open file plus I is a uint32_t
C36_BelowWrap ==
  (ArRotatingDone /\ ar_ev.file_time + ar.rotation_interval < TimeLimit) =>
    /\ ar.outfile # NullStr
    /\ ar.next_rotate_time = ar_ev.file_time + ar.rotation_interval
    /\ ar_ev.time < ar.next_rotate_time

\* with the sum past the uint32_t, a file is open and next_rotate_time is
\* the sum modulo 2^32; the view that opened the file is not below it
C36_AtWrap ==
  (ArRotatingDone /\ ar_ev.file_time + ar.rotation_interval >= TimeLimit) =>
    /\ ar.outfile # NullStr
    /\ ar.next_rotate_time =
         ar_ev.file_time + ar.rotation_interval - TimeLimit
    /\ ArOpened(ar_ev) => ar_ev.time >= ar.next_rotate_time


(***************************************************************************)
(* Binary view file: writing to a file whose writes fail                   *)
(***************************************************************************)

\* WRITE_VAL: a call of wandio_wwrite whose result only leads to a message
WVal(bytes) == <<[bytes |-> bytes, checked |-> FALSE]>>
\* a call of wandio_wwrite whose result is compared with the length
WChk(bytes) == <<[bytes |-> bytes, checked |-> TRUE]>>
\* WRITE_MAGIC: two WRITE_VALs
WMagic(magic) == WVal(U32BE(VIEW_MAGIC)) \o WVal(U32BE(magic))

\* write_ip: the calls of wandio_wwrite it makes
write_ip_calls(ip) ==
  IF ip.version = 4 THEN [ret |-> 0, calls |-> WVal(U8(4)) \o WChk(ip.addr)]
  ELSE IF ip.version = 6
  THEN [ret |-> 0, calls |-> WVal(U8(16)) \o WChk(ip.addr)]
  ELSE [ret |-> -1, calls |-> <<>>]

\* write_peers: the calls of wandio_wwrite it makes when none of them fails
RECURSIVE write_peers_calls_loop(_, _, _, _)
write_peers_calls_loop(view, cb, ids, acc) ==
  IF ids = <<>>
  THEN [ret |-> 0,
        calls |-> acc.calls \o WMagic(VIEW_PEER_END_MAGIC)
                    \o WVal(U16BE(acc.peers_tx))]
  ELSE LET id == Head(ids)
           filter == cb_peer(cb, id)
           ps == view.sigs[id]
           ip == write_ip_calls(ps.peer_ip_addr)
           rec == WVal(U16BE(id)) \o WVal(U8(Len(ps.collector_str)))
                    \o WChk(ps.collector_str) \o ip.calls
       IN IF filter < 0 THEN [ret |-> -1, calls |-> acc.calls]
          ELSE IF filter = 0
          THEN The({write_peers_calls_loop(view, cb, t, acc) :
                      t \in {Tail(ids)}})
          ELSE IF ip.ret # 0 THEN [ret |-> -1, calls |-> acc.calls \o rec]
          ELSE The({write_peers_calls_loop(view, cb, t, a) :
                      t \in {Tail(ids)},
                      a \in {[calls |-> acc.calls \o rec
                                          \o WVal(U32BE(ps.peer_asnumber)),
                              peers_tx |-> acc.peers_tx + 1]}})

write_peers_calls(view, cb) ==
  write_peers_calls_loop(view, cb, ActivePeerSeq(view),
                         [calls |-> <<>>, peers_tx |-> 0])

\* write_paths
RECURSIVE write_paths_calls_loop(_, _, _)
write_paths_calls_loop(paths, i, calls) ==
  IF i > Len(paths)
  THEN calls \o WMagic(VIEW_PATH_END_MAGIC) \o WVal(U32BE(Len(paths)))
  ELSE The({write_paths_calls_loop(paths, i + 1, c) :
              c \in {calls \o WVal(U32Host(i - 1)) \o WVal(U8(paths[i].is_core))
                       \o WVal(U16Host(Len(paths[i].data)))
                       \o WChk(paths[i].data)}})

write_paths_calls(view) ==
  [ret |-> 0, calls |-> write_paths_calls_loop(view.paths, 1, <<>>)]

\* write_pfx_peers
RECURSIVE write_pfx_peers_calls_loop(_, _, _, _, _)
write_pfx_peers_calls_loop(view, cb, pfx, ids, acc) ==
  IF ids = <<>>
  THEN [ret |-> 0, calls |-> acc.calls, peers_cnt |-> acc.peers_cnt]
  ELSE LET id == Head(ids)
           filter == cb_pfx_peer(cb, pfx, id)
       IN IF filter < 0
          THEN [ret |-> -1, calls |-> acc.calls, peers_cnt |-> acc.peers_cnt]
          ELSE IF filter = 0
          THEN The({write_pfx_peers_calls_loop(view, cb, pfx, t, acc) :
                      t \in {Tail(ids)}})
          ELSE The({write_pfx_peers_calls_loop(view, cb, pfx, t, a) :
                      t \in {Tail(ids)},
                      a \in {[calls |-> acc.calls \o WVal(U16BE(id))
                                \o WVal(U32Host(view.pfxs[pfx][id].path)),
                              peers_cnt |-> acc.peers_cnt + 1]}})

write_pfx_peers_calls(view, cb, pfx) ==
  write_pfx_peers_calls_loop(view, cb, pfx, ActivePfxPeerSeq(view, pfx),
                             [calls |-> <<>>, peers_cnt |-> 0])

\* write_pfxs
RECURSIVE write_pfxs_calls_loop(_, _, _, _)
write_pfxs_calls_loop(view, cb, pfxs, acc) ==
  IF pfxs = <<>>
  THEN [ret |-> 0,
        calls |-> acc.calls \o WMagic(VIEW_PFX_END_MAGIC)
                    \o WVal(U32BE(acc.pfx_cnt))]
  ELSE LET pfx == Head(pfxs)
           filter == cb_pfx(cb, pfx)
           ip == write_ip_calls(pfx.address)
           hdr == ip.calls \o WVal(U8(pfx.mask_len))
           rest(pp) ==
             IF pp.ret # 0
             THEN [ret |-> -1, calls |-> acc.calls \o hdr \o pp.calls]
             ELSE IF pp.peers_cnt = 0
             THEN The({write_pfxs_calls_loop(view, cb, t, a) :
                         t \in {Tail(pfxs)},
                         a \in {[acc EXCEPT
                                   !.calls = @ \o hdr \o pp.calls]}})
             ELSE The({write_pfxs_calls_loop(view, cb, t, a) :
                         t \in {Tail(pfxs)},
                         a \in {[calls |-> acc.calls \o hdr \o pp.calls
                                   \o WMagic(VIEW_PEER_END_MAGIC)
                                   \o WVal(U16BE(pp.peers_cnt)),
                                 pfx_cnt |-> acc.pfx_cnt + 1]}})
       IN IF filter < 0 THEN [ret |-> -1, calls |-> acc.calls]
          ELSE IF filter = 0
          THEN The({write_pfxs_calls_loop(view, cb, t, acc) :
                      t \in {Tail(pfxs)}})
          ELSE IF ip.ret # 0
          THEN [ret |-> -1, calls |-> acc.calls \o ip.calls]
          ELSE The({rest(pp) : pp \in {write_pfx_peers_calls(view, cb, pfx)}})

write_pfxs_calls(view, cb) ==
  write_pfxs_calls_loop(view, cb, ActivePfxSeq(view),
                        [calls |-> <<>>, pfx_cnt |-> 0])

\* bgpview_io_file_write: the calls of wandio_wwrite it makes when none of
\* them fails, and the value it returns then
bgpview_io_file_write_calls(view, cb) ==
  IF view = NoView THEN [ret |-> 0, calls |-> <<>>]
  ELSE LET head == WMagic(VIEW_START_MAGIC) \o WVal(U32BE(view.time))
           sections(pe, pa, px) ==
             IF pe.ret # 0 THEN [ret |-> -1, calls |-> head \o pe.calls]
             ELSE IF pa.ret # 0
             THEN [ret |-> -1, calls |-> head \o pe.calls \o pa.calls]
             ELSE IF px.ret # 0
             THEN [ret |-> -1,
                   calls |-> head \o pe.calls \o pa.calls \o px.calls]
             ELSE [ret |-> 0,
                   calls |-> head \o pe.calls \o pa.calls \o px.calls
                               \o WMagic(VIEW_END_MAGIC)]
       IN The({sections(pe, pa, px) : pe \in {write_peers_calls(view, cb)},
                                      pa \in {write_paths_calls(view)},
                                      px \in {write_pfxs_calls(view, cb)}})

\* the calls of wandio_wwrite that fail, among n calls: none, one of them,
\* or all of them from one on
IoFailures(n) ==
  {{}} \cup {{k} : k \in 1..n} \cup {k..n : k \in 1..n}

\* the first checked call that fails (0: none): it takes the writer to err
FirstCheckedFailure(calls, failed) ==
  IF \E k \in failed : calls[k].checked
  THEN CHOOSE k \in failed :
         calls[k].checked /\ \A j \in failed : calls[j].checked => k <= j
  ELSE 0

\* what a call of wandio_wwrite leaves in the file: its bytes, or, if it
\* fails, none of them (it returned -1) or all but the last (a short write)
Written(call, fails, short) ==
  IF ~fails THEN call.bytes
  ELSE IF short /\ call.bytes # <<>>
  THEN SubSeq(call.bytes, 1, Len(call.bytes) - 1)
  ELSE <<>>

RECURSIVE WrittenUpTo(_, _, _, _)
WrittenUpTo(calls, failed, short, n) ==
  IF n = 0 THEN <<>>
  ELSE The({b \o Written(calls[n], n \in failed, short) :
              b \in {WrittenUpTo(calls, failed, short, n - 1)}})

\* bgpview_io_file_write to a file where the calls of `failed` fail: the
\* value returned, the bytes in the file, the number of calls made and
\* those of them that failed
bgpview_io_file_write_io(view, cb, failed, short) ==
  LET w == bgpview_io_file_write_calls(view, cb)
      stop == FirstCheckedFailure(w.calls, failed)
      made == IF stop = 0 THEN Len(w.calls) ELSE stop
  IN  [ret |-> IF stop = 0 THEN w.ret ELSE -1,
       bytes |-> WrittenUpTo(w.calls, failed, short, made),
       made |-> made,
       failed |-> failed \cap (1..made),
       calls |-> w.calls]

\* the writing process writes its view to a new file; writes may fail
FileWriteIo ==
  /\ f_writes = <<>>
  /\ f_damage = NoDamage
  /\ \E cb \in {NoCb} \cup FailCbs :
       \E n \in {Len(bgpview_io_file_write_calls(f_view, cb).calls)} :
         \E failed \in IoFailures(n), short \in BOOLEAN :
           \E w \in {bgpview_io_file_write_io(f_view, cb, failed, short)} :
             /\ f_stream' = w.bytes
             /\ f_writes' =
                  <<[view |-> f_view, cb |-> cb, ret |-> w.ret, at |-> 0,
                     len |-> Len(w.bytes), made |-> w.made,
                     failed |-> w.failed, calls |-> w.calls]>>
  /\ UNCHANGED <<f_ndebug, f_view, f_pos, f_rview, f_reads, f_edits, f_damage>>
  /\ UNCHANGED <<vs_vars, x_vars>>

WriteIoInit == CodecInit(FilterViews, {FALSE})

WriteIoNext == FileSetTime \/ FileWriteIo

SpecWriteIo == WriteIoInit /\ [][WriteIoNext]_vars

RECURSIVE BytesOf(_, _)
BytesOf(calls, n) ==
  IF n = 0 THEN <<>>
  ELSE The({b \o calls[n].bytes : b \in {BytesOf(calls, n - 1)}})

\* C37: bgpview_io_file_write returns 0 only if every magic number, count
\* and field was written in full: after a call in which a write failed or
\* was short the value returned is -1.
C37_WriteChecked ==
  (f_writes # <<>> /\ f_writes[1].ret = 0) =>
    /\ f_writes[1].failed = {}
    /\ f_stream = BytesOf(f_writes[1].calls, Len(f_writes[1].calls))

\* the writes whose result is compared with their length: a call in which
\* one of them fails returns -1
C37_CheckedWrites ==
  f_writes # <<>> =>
    LET w == f_writes[1]
    IN  /\ (\E k \in w.failed : w.calls[k].checked) => w.ret = -1
        /\ (w.ret = 0 /\ w.failed = {}) =>
             f_stream = bgpview_io_file_write(w.view, w.cb).bytes

\* the calls made when no write fails write the bytes of the file format
C37_CallsAreBytes ==
  f_writes # <<>> =>
    LET w == f_writes[1]
        plain == bgpview_io_file_write(w.view, w.cb)
        c == bgpview_io_file_write_calls(w.view, w.cb)
    IN  c.ret = plain.ret /\ BytesOf(c.calls, Len(c.calls)) = plain.bytes


(***************************************************************************)
(* Binary view file: reading with no view                                  *)
(***************************************************************************)

\* the reading process calls bgpview_io_file_read(infile, NULL, NULL, NULL,
\* NULL) at its offset: the view it holds is not given to the call
FileReadNull ==
  /\ f_writes # <<>>
  /\ Len(f_reads) < MaxReads
  /\ f_reads # <<>> =>
       LastOf(f_reads).st = "ret" /\ LastOf(f_reads).ret = 1
  /\ \E g \in Garbage :
       \E r \in {bgpview_io_file_read(f_stream, f_pos, NoView, NoRcbs, g,
                                      f_ndebug)} :
          /\ f_reads' = Append(f_reads,
               [st |-> r.st, ret |-> r.ret, from |-> f_pos, pos |-> r.pos,
                before |-> f_rview, view |-> f_rview, xfail |-> r.xfail,
                vend |-> r.vend, cbs |-> NoRcbs, given |-> NoView,
                left |-> r.view])
          /\ f_pos' = r.pos
  /\ UNCHANGED <<f_ndebug, f_view, f_stream, f_writes, f_rview, f_edits,
                 f_damage>>
  /\ UNCHANGED <<vs_vars, x_vars>>

ReadNullInit == CodecInit(FilterViews, BOOLEAN)

\* views are written without a filter, and each is read into a view that
\* holds nothing, or read with no view
ReadNullNext ==
  FileSetTime \/ FileWrite \/ FileReadNull \/ FileReadCleared \/ FileClear

SpecReadNull == ReadNullInit /\ [][ReadNullNext]_vars

\* read i was made with a NULL view
IsNullRead(i) == "given" \in DOMAIN f_reads[i]

\* the write whose bytes start at offset pos of the file (0: none)
WriteAt(pos) ==
  IF \E k \in DOMAIN f_writes : f_writes[k].at = pos
  THEN CHOOSE k \in DOMAIN f_writes : f_writes[k].at = pos
  ELSE 0

\* C38: a read with a NULL view that starts at an encoded view returns 1
\* and ends where the encoded view ends (at the next view or at the end of
\* the file); no view is touched, and a read into a view from the same
\* offset returns 1 and ends at the same offset.  (Stated of the last read
\* made: the file does not change once it is read.)
C38_NullViewSkips ==
  \A i \in {Len(f_reads)} \ {0} :
    (IsNullRead(i) /\ f_reads[i].from < Len(f_stream)) =>
      LET r == f_reads[i]
          k == WriteAt(r.from)
      IN  /\ r.st = "ret" /\ r.ret = 1
          /\ k # 0
          /\ r.pos = f_writes[k].at + f_writes[k].len
          /\ r.pos = Len(f_stream) \/ WriteAt(r.pos) # 0
          /\ r.left = NoView
          /\ r.view = r.before
          /\ \A g \in Garbage, v \in ReaderViews :
               LET real == bgpview_io_file_read(f_stream, r.from, v, NoRcbs,
                                                g, f_ndebug)
               IN  real.st = "ret" /\ real.ret = 1 /\ real.pos = r.pos

\* the first of two views, with an active pfx-peer, was read with no view,
\* and the second was then read into the view of the reading process
C38_Witness ==
  /\ Len(f_writes) = 2
  /\ Len(f_reads) = 2
  /\ IsNullRead(1) /\ ~IsNullRead(2)
  /\ f_reads[1].ret = 1 /\ f_reads[2].ret = 1
  /\ \E pfx \in Pfxs, id \in WriterPeerIds :
       PfxPeerActive(f_writes[1].view, pfx, id)
  /\ f_reads[1].pos = f_writes[2].at
  /\ f_reads[2].view.time = f_writes[2].view.time
  /\ f_reads[2].view.time # f_writes[1].view.time

\* a read with no view at the end of the file
C38_WitnessEof ==
  \E i \in DOMAIN f_reads :
    IsNullRead(i) /\ f_reads[i].from = Len(f_stream) /\ f_reads[i].ret = 0


(***************************************************************************)
(* Sub-prefix consumer: the events of a view                               *)
(***************************************************************************)

SpInit ==
  /\ sp = bvc_subpfx_init
  /\ sp_ev = SpNoCall
  /\ GcIdle /\ ArIdle /\ SoIdle /\ PrIdle
  /\ SenderIdle /\ FileIdle /\ RtIdle /\ KafkaIdle

SpNext == SpProcessView

SpecSubpfx == SpInit /\ [][SpNext]_vars

\* the sub-prefixes of a view: the prefixes a full-feed peer announces that
\* are covered by another such prefix
SubPfxsOf(view) ==
  {p \in SpPfxs :
     view[p] = "ff" /\ \E q \in SpPfxs : view[q] = "ff" /\ covers(q, p)}

EventPfxs(events, diff_type) ==
  {e.pfx : e \in {x \in events : x.diff_type = diff_type}}

\* the last two calls returned 0
SpTwoDone ==
  /\ sp_ev.last.called /\ sp_ev.last.st = "ret" /\ sp_ev.last.ret = 0
  /\ sp_ev.prev.called /\ sp_ev.prev.ret = 0

\* the events of the last call are the difference between the sub-prefixes
\* of its view and those of the view before it, and the maps were rotated
SpDiffEvents ==
  LET V1 == sp_ev.prev.view
      V2 == sp_ev.last.view
      events == sp_ev.last.events
  IN  /\ EventPfxs(events, DIFF_NEW) = SubPfxsOf(V2) \ SubPfxsOf(V1)
      /\ EventPfxs(events, DIFF_FINISHED) = SubPfxsOf(V1) \ SubPfxsOf(V2)
      /\ \A e \in events : e.pfx \notin SubPfxsOf(V1) \cap SubPfxsOf(V2)
      /\ sp.current_subpfxs_idx # sp_ev.last.entry.current_subpfxs_idx
      /\ DOMAIN PREV_SUBPFXS(sp) = SubPfxsOf(V2)
      /\ CUR_SUBPFXS(sp) = EmptyFun

\* C39: when a view V2 is processed after a view V1, both with return value
\* 0, a NEW event is dumped for exactly the sub-prefixes of V2 that are not
\* sub-prefixes of V1, a FINISHED event for exactly the sub-prefixes of V1
\* that are not sub-prefixes of V2, none for a sub-prefix of both, and the
\* maps have swapped: the map of V2 is the previous map of the next call.
C39_DiffEvents == SpTwoDone => SpDiffEvents

\* C39 for calls that began with an empty tree
C39_CleanTree ==
  (SpTwoDone /\ sp_ev.prev.entry_pt = {} /\ sp_ev.last.entry.pt = {}) =>
    SpDiffEvents

\* C40: when bvc_subpfx_process_view is entered the tree and the current map
\* are empty, and the assert of find_subpfxs does not fail, whatever the
\* calls before returned.
C40_EmptyAtEntry ==
  sp_ev.last.called =>
    /\ sp_ev.last.entry.pt = {}
    /\ CUR_SUBPFXS(sp_ev.last.entry) = EmptyFun
    /\ sp_ev.last.st # "abort"

\* the part of C40 about the current map and the assert
C40_CurrentMapEmpty ==
  sp_ev.last.called =>
    /\ CUR_SUBPFXS(sp_ev.last.entry) = EmptyFun
    /\ sp_ev.last.st # "abort"

====
